---- MODULE Spec2Model ----
(***************************************************************************)
(* nest-hex CLI generation pipeline: the conflict-aware file writer        *)
(* (cli/utils/file-writer.ts), the batch loop of BaseGenerator             *)
(* (cli/generators/base.generator.ts) and the generate entry points of the *)
(* port and service generators.                                            *)
(***************************************************************************)
EXTENDS Integers, Sequences, FiniteSets, TLC

(***************************************************************************)
(* Bounds of the model.                                                    *)
(***************************************************************************)
\* number of top-level operations (generate calls, direct writeFile calls,
\* manual edits) in one behaviour
MaxOps == 3
\* at most this many targets reject Bun.write (permission / disk error)
MaxFaults == 1

(***************************************************************************)
(* Inputs.                                                                 *)
(***************************************************************************)
Names == {"payment"}
OutputPaths == {"src/ports"}
Kinds == {"port", "service", "serviceInject"}
Absent == <<"<absent>">>
\* content written by hand (Bun.write in the tests) and content handed to a
\* direct writeFile call
ManualContent == <<"// MODIFIED CONTENT">>
DirectContents == {<<"Content 2">>}
WriteCause == "EACCES: permission denied"

\* basenames of the files a generator can emit for one name (kebab file case)
Basenames(name) ==
    {name \o ".port.ts", name \o ".token.ts", name \o ".service.ts",
     name \o ".module.ts", "index.ts"}

\* join(outputDir, fileName, basename)
Paths == {<<o, n, b>> : o \in OutputPaths, n \in Names, b \in UNION {Basenames(m) : m \in Names}}

\* dirname(filePath)
dirname(path) == SubSeq(path, 1, Len(path) - 1)

\* a plausible slip: mkdirSync without {recursive: true}
AncestorsNotRecursive(dir) == {dir}

\* the directories mkdirSync(dir, {recursive: true}) makes sure exist
Ancestors(dir) == {SubSeq(dir, 1, k) : k \in 1..Len(dir)}

Range(s) == {s[i] : i \in 1..Len(s)}

VARIABLES
    fs,              \* filePath -> content, or Absent
    dirs,            \* the directories that exist
    unwritable,      \* the targets whose Bun.write throws
    pc,              \* "idle", or "writing" inside generateFiles' loop
    call,            \* the generate call in progress / last finished
    files,           \* the FileToGenerate[] handed to generateFiles
    gfDryRun,        \* generateFiles' dryRun parameter
    gfForce,         \* generateFiles' force parameter
    idx,             \* position of the for-of loop (1-based)
    generatedFiles,  \* generateFiles' local generatedFiles
    failures,        \* generateFiles' local failures
    results,         \* the WriteResult of every writeFile call of the batch, in call order
    outcome,         \* what the last generate call handed its caller
    lastWrite,       \* argument and WriteResult of the last direct writeFile call
    pre,             \* fs and dirs when the last operation started
    nops,            \* operations started so far
    arg,             \* the arguments of the pure function under study
    ret              \* what it returned

vars == <<fs, dirs, unwritable, pc, call, files, gfDryRun, gfForce, idx,
          generatedFiles, failures, results, outcome, lastWrite, pre, nops,
          arg, ret>>

(***************************************************************************)
(* writeFile (cli/utils/file-writer.ts)                                    *)
(***************************************************************************)
\* a plausible slip: the force flag read the wrong way round
IsConflictForceInverted(existed, force, dryRun) == existed /\ force /\ ~dryRun

\* a plausible slip: the dry-run exemption forgotten
IsConflictNoDryRun(existed, force, dryRun) == existed /\ ~force

\* if (existed && !force && !dryRun)
IsConflict(existed, force, dryRun) == existed /\ ~force /\ ~dryRun

\* a plausible slip: force overrides the dry run
SkipsWriteUnlessForced(force, dryRun) == dryRun /\ ~force

\* if (dryRun)
SkipsWrite(force, dryRun) == dryRun

\* `Failed to write file: ${error.message}`
WriteFailedMessage(cause) == "Failed to write file: " \o cause

\* writeFile from the line after `await file.exists()` on, on filesystem
\* (f, d) with the answer existed: the WriteResult and the filesystem it leaves
writeFileFrom(f, d, existed, filePath, content, force, dryRun) ==
        IF IsConflict(existed, force, dryRun)
        THEN [fs |-> f, dirs |-> d,
              result |-> [success |-> FALSE, path |-> filePath, existed |-> TRUE,
                          written |-> FALSE,
                          message |-> "File already exists. Use --force to overwrite."]]
        ELSE IF SkipsWrite(force, dryRun)
        THEN [fs |-> f, dirs |-> d,
              result |-> [success |-> TRUE, path |-> filePath, existed |-> existed,
                          written |-> FALSE,
                          message |-> "Dry run - file not written"]]
        ELSE LET d2 == d \cup Ancestors(dirname(filePath))
             IN  IF filePath \in unwritable
                 THEN [fs |-> f, dirs |-> d2,
                       result |-> [success |-> FALSE, path |-> filePath,
                                   existed |-> existed, written |-> FALSE,
                                   message |-> WriteFailedMessage(WriteCause)]]
                 ELSE [fs |-> [f EXCEPT ![filePath] = content], dirs |-> d2,
                       result |-> [success |-> TRUE, path |-> filePath,
                                   existed |-> existed, written |-> TRUE,
                                   message |-> IF existed THEN "File overwritten"
                                                          ELSE "File created"]]

\* writeFile(filePath, content, {force, dryRun}) on filesystem (f, d), nothing
\* else touching the filesystem meanwhile
writeFile(f, d, filePath, content, force, dryRun) ==
    writeFileFrom(f, d, f[filePath] # Absent, filePath, content, force, dryRun)

(***************************************************************************)
(* Generators                                                              *)
(***************************************************************************)
\* renderTemplate + applyStyleConfig of one artifact: the text depends on the
\* generator, the artifact's template and the name
Render(kind, template, name) == <<kind, template, name>>

\* an optional option: left out, or given a value
Omitted == <<>>
Some(v) == <<v>>

\* options.includeService ?? true, and a parameter's default value
Default(opt, dflt) == IF opt = Omitted THEN dflt ELSE opt[1]

File(o, n, base, kind, template) ==
    [path |-> <<o, n, base>>, content |-> Render(kind, template, n)]

\* a plausible slip: the index file pushed first
PortFilesIndexFirst(opts) ==
    LET o == opts.outputPath
        n == opts.name
    IN  <<File(o, n, "index.ts", "port", "index.hbs"),
          File(o, n, n \o ".port.ts", "port", "interface.hbs"),
          File(o, n, n \o ".token.ts", "port", "token.hbs")>>
        \o (IF Default(opts.includeService, TRUE)
            THEN <<File(o, n, n \o ".service.ts", "port", "service.hbs")>> ELSE <<>>)
        \o (IF Default(opts.includeModule, TRUE)
            THEN <<File(o, n, n \o ".module.ts", "port", "module.hbs")>> ELSE <<>>)

\* a plausible slip: the two inclusion flags exchanged
PortFilesFlagsSwapped(opts) ==
    LET o == opts.outputPath
        n == opts.name
    IN  <<File(o, n, n \o ".port.ts", "port", "interface.hbs"),
          File(o, n, n \o ".token.ts", "port", "token.hbs")>>
        \o (IF Default(opts.includeModule, TRUE)
            THEN <<File(o, n, n \o ".service.ts", "port", "service.hbs")>> ELSE <<>>)
        \o (IF Default(opts.includeService, TRUE)
            THEN <<File(o, n, n \o ".module.ts", "port", "module.hbs")>> ELSE <<>>)
        \o <<File(o, n, "index.ts", "port", "index.hbs")>>

\* PortGenerator.generate: the file list, in push order
PortFiles(opts) ==
    LET o == opts.outputPath
        n == opts.name
    IN  <<File(o, n, n \o ".port.ts", "port", "interface.hbs"),
          File(o, n, n \o ".token.ts", "port", "token.hbs")>>
        \o (IF Default(opts.includeService, TRUE)
            THEN <<File(o, n, n \o ".service.ts", "port", "service.hbs")>> ELSE <<>>)
        \o (IF Default(opts.includeModule, TRUE)
            THEN <<File(o, n, n \o ".module.ts", "port", "module.hbs")>> ELSE <<>>)
        \o <<File(o, n, "index.ts", "port", "index.hbs")>>

\* ServiceGenerator.generate: the file list
ServiceFiles(kind, opts) ==
    <<File(opts.outputPath, opts.name, opts.name \o ".service.ts", kind,
           "injectable-service.hbs")>>

FilesOf(kind, opts) ==
    IF kind = "port" THEN PortFiles(opts) ELSE ServiceFiles(kind, opts)

\* the force argument each generate passes to generateFiles: only the
\* port-injecting ServiceGenerator passes options.force, the others leave the
\* parameter at its default (false)
ForceArg(kind, opts) ==
    IF kind = "serviceInject" THEN Default(opts.force, FALSE) ELSE FALSE

\* the dryRun argument each generate passes: options.dryRun, default false
DryRunArg(kind, opts) == Default(opts.dryRun, FALSE)

\* the message of the GeneratorResult a generate returns
SuccessMessage(kind, opts, gf) ==
    IF kind = "port"
    THEN <<"Successfully generated port files for", opts.name>>
    ELSE <<"Successfully generated", ToString(Len(gf)), "service file(s)">>

Options(kind) ==
    [name : Names, outputPath : OutputPaths,
     dryRun : {Omitted, Some(TRUE)}, force : {Some(FALSE), Some(TRUE)},
     includeService : IF kind = "port" THEN {Omitted, Some(FALSE), Some(TRUE)}
                                       ELSE {Omitted},
     includeModule : IF kind = "port" THEN {Omitted, Some(FALSE), Some(TRUE)}
                                      ELSE {Omitted}]

NoCall == [kind |-> "none"]
NoOutcome == [type |-> "none"]
NoWrite == [type |-> "none"]
NoArg == [fn |-> "none"]
NoRet == [type |-> "none"]

Init ==
    /\ fs = [p \in Paths |-> Absent]
    /\ dirs = {}
    /\ unwritable \in {u \in SUBSET Paths : Cardinality(u) <= MaxFaults}
    /\ pc = "idle"
    /\ call = NoCall
    /\ files = <<>>
    /\ gfDryRun = FALSE
    /\ gfForce = FALSE
    /\ idx = 1
    /\ generatedFiles = <<>>
    /\ failures = <<>>
    /\ results = <<>>
    /\ outcome = NoOutcome
    /\ lastWrite = NoWrite
    /\ pre = [fs |-> fs, dirs |-> dirs]
    /\ nops = 0
    /\ arg = NoArg
    /\ ret = NoRet

\* generate(options) up to the call of generateFiles: the file list is
\* rendered, nothing is written yet
Generate(kind, opts) ==
    /\ pc = "idle"
    /\ nops < MaxOps
    /\ nops' = nops + 1
    /\ pc' = "writing"
    /\ call' = [kind |-> kind, opts |-> opts]
    /\ files' = FilesOf(kind, opts)
    /\ gfDryRun' = DryRunArg(kind, opts)
    /\ gfForce' = ForceArg(kind, opts)
    /\ idx' = 1
    /\ generatedFiles' = <<>>
    /\ failures' = <<>>
    /\ results' = <<>>
    /\ outcome' = NoOutcome
    /\ lastWrite' = NoWrite
    /\ pre' = [fs |-> fs, dirs |-> dirs]
    /\ UNCHANGED <<fs, dirs, unwritable, arg, ret>>

\* a plausible slip: the loop stops at the first failed write
NextIndexAbortOnFailure(i, result) ==
    IF result.success THEN i + 1 ELSE Len(files) + 1

\* for (const file of files): the loop goes on whatever the result
NextIndex(i, result) == i + 1

\* a plausible slip: the cause is dropped for the fallback text
FailureEntryUnknown(file, result) ==
    [path |-> file.path, error |-> "Unknown error"]

\* failures.push({path: file.path, error: result.message || 'Unknown error'})
FailureEntry(file, result) ==
    [path |-> file.path, error |-> result.message]

\* the body of generateFiles' for-of loop on the locals acc: one writeFile
\* call, and its result filed under generatedFiles or failures
LoopBody(acc, file, dryRun, force) ==
    LET w == writeFile(acc.fs, acc.dirs, file.path, file.content, force, dryRun)
    IN  [fs |-> w.fs, dirs |-> w.dirs,
         results |-> Append(acc.results, w.result),
         generatedFiles |-> IF w.result.success
                            THEN Append(acc.generatedFiles, file.path)
                            ELSE acc.generatedFiles,
         failures |-> IF w.result.success
                      THEN acc.failures
                      ELSE Append(acc.failures, FailureEntry(file, w.result))]

\* one iteration of generateFiles' loop
WriteNext ==
    /\ pc = "writing"
    /\ idx <= Len(files)
    /\ LET acc == LoopBody([fs |-> fs, dirs |-> dirs, results |-> results,
                            generatedFiles |-> generatedFiles,
                            failures |-> failures],
                           files[idx], gfDryRun, gfForce)
       IN  /\ fs' = acc.fs
           /\ dirs' = acc.dirs
           /\ results' = acc.results
           /\ generatedFiles' = acc.generatedFiles
           /\ failures' = acc.failures
           /\ idx' = NextIndex(idx, acc.results[Len(acc.results)])
    /\ UNCHANGED <<unwritable, pc, call, files, gfDryRun, gfForce, outcome,
                   lastWrite, pre, nops, arg, ret>>

\* a plausible slip: only the first failure is reported
ErrorMessageFirstOnly(fl) == [count |-> Len(fl), lines |-> <<fl[1]>>]

\* `Failed to generate ${failures.length} file(s):\n` + one line
\* `  - ${f.path}: ${f.error}` per failure
ErrorMessage(fl) == [count |-> Len(fl), lines |-> fl]

\* a plausible slip: a single failure is tolerated
ThrowsOnSecondFailure(fl) == Len(fl) > 1

\* if (failures.length > 0) throw
Throws(fl) == Len(fl) > 0

\* a plausible change: the batch restores the files it found
FilesAfterFailureRolledBack(f, f0) == f0

\* generateFiles throws without touching what the loop has written
FilesAfterFailure(f, f0) == f

\* what generate hands its caller once the loop is over: generateFiles'
\* aggregate Error, which generate does not catch, or the GeneratorResult
Outcome(kind, opts, gf, fl) ==
    IF Throws(fl)
    THEN [type |-> "thrown", error |-> ErrorMessage(fl)]
    ELSE [type |-> "returned",
          value |-> [success |-> TRUE, files |-> gf,
                     message |-> SuccessMessage(kind, opts, gf)]]

\* the end of generateFiles and of generate
Finish ==
    /\ pc = "writing"
    /\ idx > Len(files)
    /\ pc' = "idle"
    /\ outcome' = Outcome(call.kind, call.opts, generatedFiles, failures)
    /\ fs' = IF Throws(failures) THEN FilesAfterFailure(fs, pre.fs) ELSE fs
    /\ UNCHANGED <<dirs, unwritable, call, files, gfDryRun, gfForce, idx,
                   generatedFiles, failures, results, lastWrite, pre, nops,
                   arg, ret>>

\* a direct call writeFile(filePath, content, {force, dryRun})
DirectWrite(filePath, content, force, dryRun) ==
    /\ pc = "idle"
    /\ nops < MaxOps
    /\ nops' = nops + 1
    /\ LET w == writeFile(fs, dirs, filePath, content, force, dryRun)
       IN  /\ fs' = w.fs
           /\ dirs' = w.dirs
           /\ lastWrite' = [type |-> "writeFile", path |-> filePath,
                            content |-> content, force |-> force,
                            dryRun |-> dryRun, result |-> w.result]
    /\ pre' = [fs |-> fs, dirs |-> dirs]
    /\ call' = NoCall
    /\ outcome' = NoOutcome
    /\ UNCHANGED <<unwritable, pc, files, gfDryRun, gfForce, idx,
                   generatedFiles, failures, results, arg, ret>>

\* a file is modified by hand between two calls (Bun.write in the tests)
ManualEdit(filePath) ==
    /\ pc = "idle"
    /\ nops < MaxOps
    /\ fs[filePath] \notin {Absent, ManualContent}
    /\ nops' = nops + 1
    /\ fs' = [fs EXCEPT ![filePath] = ManualContent]
    /\ pre' = [fs |-> fs, dirs |-> dirs]
    /\ call' = NoCall
    /\ outcome' = NoOutcome
    /\ lastWrite' = NoWrite
    /\ UNCHANGED <<dirs, unwritable, pc, files, gfDryRun, gfForce, idx,
                   generatedFiles, failures, results, arg, ret>>

Next ==
    \/ \E kind \in Kinds : \E opts \in Options(kind) : Generate(kind, opts)
    \/ WriteNext
    \/ Finish
    \/ \E p \in Paths, c \in DirectContents, force \in BOOLEAN, dryRun \in BOOLEAN :
          DirectWrite(p, c, force, dryRun)
    \/ \E p \in Paths : ManualEdit(p)

Spec == Init /\ [][Next]_vars

(***************************************************************************)
(* A whole generate call as a function of the filesystem it starts from.   *)
(***************************************************************************)
RECURSIVE generateFiles(_, _, _, _)
\* generateFiles(files, dryRun, force) started with the locals acc
generateFiles(acc, fl, dryRun, force) ==
    IF fl = <<>> THEN acc
    ELSE generateFiles(LoopBody(acc, Head(fl), dryRun, force), Tail(fl), dryRun, force)

\* generate(options) of a generator kind run from filesystem (f, d): the
\* loop's final locals and what the caller is handed
generate(kind, opts, f, d) ==
    LET acc == generateFiles([fs |-> f, dirs |-> d, results |-> <<>>,
                              generatedFiles |-> <<>>, failures |-> <<>>],
                             FilesOf(kind, opts), DryRunArg(kind, opts),
                             ForceArg(kind, opts))
    IN  [acc |-> acc,
         outcome |-> Outcome(kind, opts, acc.generatedFiles, acc.failures)]

(***************************************************************************)
(* Properties                                                              *)
(***************************************************************************)
\* a generate call has run to its end
Finished == pc = "idle" /\ call.kind # "none" /\ outcome.type # "none"

\* a direct writeFile call has just returned
Wrote == lastWrite.type = "writeFile"

OptForce == Default(call.opts.force, FALSE)
OptDryRun == Default(call.opts.dryRun, FALSE)

FileIndexes == 1..Len(files)
BatchPaths == {files[i].path : i \in FileIndexes}

\* the targets of the batch that existed when the call started
ConflictingPaths == {p \in BatchPaths : pre.fs[p] # Absent}

\* C1: writeFile with force=false and dryRun=false on an existing path
\* returns a conflict (success=false, existed=true, written=false) and the
\* file holds the content it held before the call.
C1_ConflictKeepsFile ==
    (Wrote /\ ~lastWrite.force /\ ~lastWrite.dryRun
           /\ pre.fs[lastWrite.path] # Absent)
    => /\ lastWrite.result.success = FALSE
       /\ lastWrite.result.existed = TRUE
       /\ lastWrite.result.written = FALSE
       /\ fs[lastWrite.path] = pre.fs[lastWrite.path]

C1_Witness ==
    /\ Wrote /\ ~lastWrite.force /\ ~lastWrite.dryRun
    /\ pre.fs[lastWrite.path] \notin {Absent, lastWrite.content}
    /\ lastWrite.result.message = "File already exists. Use --force to overwrite."

\* C2: with dryRun=true, writeFile changes no file and no directory whatever
\* force and the target's existence are, and returns written=false with
\* existed telling whether the target existed before the call.
C2_DryRunWritesNothing ==
    (Wrote /\ lastWrite.dryRun)
    => /\ fs = pre.fs
       /\ dirs = pre.dirs
       /\ lastWrite.result.written = FALSE
       /\ lastWrite.result.existed = (pre.fs[lastWrite.path] # Absent)

C2_Witness ==
    /\ Wrote /\ lastWrite.dryRun /\ lastWrite.force
    /\ pre.fs[lastWrite.path] \notin {Absent, lastWrite.content}
    /\ lastWrite.result.existed

\* C3: generate with force=true over existing output files completes without
\* error and every output file holds the newly generated content (no target
\* of the batch being unwritable).
C3_ForceOverwrites ==
    (Finished /\ OptForce /\ ~OptDryRun /\ ConflictingPaths # {}
              /\ BatchPaths \cap unwritable = {})
    => /\ outcome.type = "returned"
       /\ \A i \in FileIndexes : fs[files[i].path] = files[i].content

\* the writes of the batch that failed / that wrote their file
FailedWrites == {i \in 1..Len(results) : ~results[i].success}
DoneWrites == {i \in 1..Len(results) : results[i].success /\ results[i].written}

ErrorLines == Range(outcome.error.lines)

ConflictMessage == "File already exists. Use --force to overwrite."

\* C4: a generate call without force and without dryRun whose targets already
\* exist (as after a first call for the same name and location) does not
\* succeed, its error lists every conflicting path, and every file that
\* existed before the call holds the content it held before.
C4_RepeatedCallConflicts ==
    (Finished /\ ~OptForce /\ ~OptDryRun /\ ConflictingPaths # {})
    => /\ outcome.type = "thrown"
       /\ \A p \in ConflictingPaths :
             \E l \in ErrorLines : l.path = p /\ l.error = ConflictMessage
       /\ \A p \in Paths : pre.fs[p] # Absent => fs[p] = pre.fs[p]

\* the call repeats an earlier generate: every target already holds what
\* this call renders for it
C4_Witness ==
    /\ Finished /\ ~OptForce /\ ~OptDryRun
    /\ Len(files) >= 3
    /\ \A i \in FileIndexes : pre.fs[files[i].path] = files[i].content
    /\ outcome.type = "thrown"
    /\ outcome.error.count = Len(files)

\* C5 as stated: when a write of the batch fails, generate returns a
\* GenerationResult with success=false whose files are exactly the paths
\* written successfully.
C5_ReturnsFailedResult ==
    (Finished /\ FailedWrites # {})
    => /\ outcome.type = "returned"
       /\ outcome.value.success = FALSE
       /\ Range(outcome.value.files) = {results[i].path : i \in 1..Len(results) \ FailedWrites}

\* C5 amended: when a write of the batch fails, generate throws one Error
\* (it returns no GenerationResult and no list of the files that succeeded)
\* whose message counts the failed writes and names each failing path with
\* its cause.
C5_ThrowsAggregateError ==
    (Finished /\ FailedWrites # {})
    => /\ outcome.type = "thrown"
       /\ DOMAIN outcome = {"type", "error"}
       /\ outcome.error.count = Cardinality(FailedWrites)
       /\ \A i \in FailedWrites :
             \E l \in ErrorLines :
                l.path = results[i].path /\ l.error = results[i].message

C5_Witness ==
    /\ Finished /\ outcome.type = "thrown"
    /\ \E i \in FailedWrites : results[i].message = WriteFailedMessage(WriteCause)
    /\ DoneWrites # {}

\* the same call with dryRun=false, run from the filesystem this call found
RealRun ==
    generate(call.kind, [call.opts EXCEPT !.dryRun = Some(FALSE)], pre.fs, pre.dirs)

\* every artifact of the batch was written, none met a conflict or an error
AllWritten(res, fl, f) ==
    /\ Len(res) = Len(fl)
    /\ \A i \in 1..Len(fl) :
          /\ res[i].path = fl[i].path
          /\ res[i].success /\ res[i].written
          /\ f[fl[i].path] = fl[i].content

Succeeded == Finished /\ outcome.type = "returned" /\ outcome.value.success

\* C6 as stated: success=true only if every artifact was written without
\* conflict; for a dry run, only if the same call with dryRun=false from the
\* same filesystem would have written every artifact without conflict (no
\* target of the batch being unwritable).
C6_SuccessMeansWritable ==
    (Succeeded /\ BatchPaths \cap unwritable = {})
    => IF OptDryRun
       THEN AllWritten(RealRun.acc.results, files, RealRun.acc.fs)
       ELSE AllWritten(results, files, fs)

\* C6 amended: with dryRun=false, success=true only if every artifact was
\* written without conflict; with dryRun=true, generate reports success=true
\* with every write simulated, whatever exists on disk (also when the same
\* call with dryRun=false would conflict).
C6_SuccessMeansWrittenOrSimulated ==
    /\ (Succeeded /\ ~OptDryRun) => AllWritten(results, files, fs)
    /\ (Finished /\ OptDryRun)
       => /\ Succeeded
          /\ Len(results) = Len(files)
          /\ \A i \in FileIndexes : results[i].success /\ ~results[i].written

\* a successful dry run whose real counterpart meets conflicts
C6_Witness ==
    /\ Succeeded /\ OptDryRun
    /\ BatchPaths \cap unwritable = {}
    /\ RealRun.outcome.type = "thrown"
    /\ ConflictingPaths # {}

\* C7: the writes of a batch are attempted once each, in list order, whatever
\* the earlier results: after k iterations the first k artifacts have been
\* attempted, and at the end all of them.
C7_EveryWriteAttemptedInOrder ==
    call.kind # "none"
    => /\ Len(results) = (IF pc = "writing" THEN idx - 1 ELSE Len(files))
       /\ \A i \in 1..Len(results) : results[i].path = files[i].path
       /\ \A i, j \in 1..Len(results) : i # j => results[i].path # results[j].path

C7_Witness ==
    /\ Finished /\ Len(files) >= 3
    /\ ~results[1].success
    /\ results[Len(files)].success /\ results[Len(files)].written

\* C8: the aggregate error names exactly the failed paths, each with the
\* cause of its own write, and no path whose write succeeded.
C8_ErrorNamesExactlyFailures ==
    (Finished /\ outcome.type = "thrown")
    => /\ FailedWrites # {}
       /\ {<<l.path, l.error>> : l \in ErrorLines}
            = {<<results[i].path, results[i].message>> : i \in FailedWrites}
       /\ Len(outcome.error.lines) = Cardinality(FailedWrites)
       /\ \A i \in 1..Len(results) :
             results[i].success => \A l \in ErrorLines : l.path # results[i].path

C8_Witness ==
    /\ Finished /\ outcome.type = "thrown"
    /\ \E i, j \in FailedWrites :
          /\ results[i].message = ConflictMessage
          /\ results[j].message = WriteFailedMessage(WriteCause)
    /\ DoneWrites # {}

\* C9: after a batch with failures, every file whose write succeeded holds
\* its new content, every other file holds what it held before the call and
\* no directory is gone.
C9_NoRollback ==
    (Finished /\ outcome.type = "thrown")
    => /\ \A i \in DoneWrites : fs[files[i].path] = files[i].content
       /\ \A p \in Paths \ {results[i].path : i \in DoneWrites} : fs[p] = pre.fs[p]
       /\ pre.dirs \subseteq dirs

C9_Witness ==
    /\ Finished /\ outcome.type = "thrown"
    /\ \E i \in DoneWrites : pre.fs[files[i].path] = Absent
    /\ \E i \in FailedWrites : fs[files[i].path] # Absent

\* C10 as stated: a dry run reports the file list the same call with
\* dryRun=false would report from the same filesystem, and changes nothing
\* (no target of the batch being unwritable).
C10_DryRunListsWhatRealRunLists ==
    (Finished /\ OptDryRun /\ BatchPaths \cap unwritable = {})
    => /\ outcome.type = "returned"
       /\ RealRun.outcome.type = "returned"
       /\ outcome.value.files = RealRun.outcome.value.files
       /\ fs = pre.fs /\ dirs = pre.dirs

\* C10 amended: a dry run reports every artifact path of the batch in list
\* order, which is the list the same call with dryRun=false reports whenever
\* that call completes without error, and changes no file or directory.
C10_DryRunListsBatch ==
    (Finished /\ OptDryRun)
    => /\ outcome.type = "returned"
       /\ outcome.value.files = [i \in FileIndexes |-> files[i].path]
       /\ RealRun.outcome.type = "returned"
             => outcome.value.files = RealRun.outcome.value.files
       /\ fs = pre.fs /\ dirs = pre.dirs

C10_Witness ==
    /\ Finished /\ OptDryRun
    /\ Len(files) >= 4
    /\ RealRun.outcome.type = "returned"
    /\ RealRun.acc.fs # pre.fs
    /\ pre.dirs = {}

\* the parent directories of a path, outermost first
ParentDirs(path) == {SubSeq(path, 1, k) : k \in 1..(Len(path) - 1)}

\* the direct writeFile call was one that writes: dryRun false, and the
\* target absent or force true
WroteForReal ==
    /\ Wrote /\ ~lastWrite.dryRun
    /\ (pre.fs[lastWrite.path] = Absent \/ lastWrite.force)

\* C11 as stated: with dryRun false and the target absent or force true,
\* writeFile creates every missing parent directory, leaves the target holding
\* the supplied content and returns success=true, written=true and existed as
\* it was before the call.
C11_WriteAlwaysSucceeds ==
    WroteForReal
    => /\ ParentDirs(lastWrite.path) \subseteq dirs
       /\ fs[lastWrite.path] = lastWrite.content
       /\ lastWrite.result.success /\ lastWrite.result.written
       /\ lastWrite.result.existed = (pre.fs[lastWrite.path] # Absent)

\* C11 amended: the same, unless Bun.write throws; then writeFile returns
\* success=false and written=false with the error's message, existed still
\* telling whether the target existed before the call. In both cases no other
\* file changes and no directory disappears.
C11_WriteSucceedsUnlessRejected ==
    WroteForReal
    => /\ lastWrite.result.existed = (pre.fs[lastWrite.path] # Absent)
       /\ \A p \in Paths \ {lastWrite.path} : fs[p] = pre.fs[p]
       /\ pre.dirs \subseteq dirs
       /\ IF lastWrite.path \in unwritable
          THEN /\ ~lastWrite.result.success /\ ~lastWrite.result.written
               /\ lastWrite.result.message = WriteFailedMessage(WriteCause)
          ELSE /\ ParentDirs(lastWrite.path) \subseteq dirs
               /\ fs[lastWrite.path] = lastWrite.content
               /\ lastWrite.result.success /\ lastWrite.result.written

\* a forced overwrite of different content, and no directory existed at first
C11_Witness ==
    /\ WroteForReal /\ lastWrite.force
    /\ pre.fs[lastWrite.path] \notin {Absent, lastWrite.content}
    /\ lastWrite.result.success /\ lastWrite.result.written
    /\ lastWrite.result.message = "File overwritten"

\* the templates of the batch, in list order
BatchTemplates == [i \in FileIndexes |-> files[i].content[2]]

IsPortCall == call.kind = "port"
WithService == call.opts.includeService # Some(FALSE)
WithModule == call.opts.includeModule # Some(FALSE)

\* C12 as stated: port generation lists its artifacts in the order token,
\* interface, service if included, module if included, index last.
C12_TokenThenInterface ==
    IsPortCall
    => BatchTemplates =
          <<"token.hbs", "interface.hbs">>
          \o (IF WithService THEN <<"service.hbs">> ELSE <<>>)
          \o (IF WithModule THEN <<"module.hbs">> ELSE <<>>)
          \o <<"index.hbs">>

\* C12 amended: port generation lists, and writes, its artifacts in the order
\* interface, token, service if included, module if included, index last.
C12_InterfaceThenToken ==
    IsPortCall
    => /\ BatchTemplates =
             <<"interface.hbs", "token.hbs">>
             \o (IF WithService THEN <<"service.hbs">> ELSE <<>>)
             \o (IF WithModule THEN <<"module.hbs">> ELSE <<>>)
             \o <<"index.hbs">>
       /\ files[Len(files)].path[3] = "index.ts"
       /\ \A i \in 1..Len(results) : results[i].path = files[i].path

C12_Witness ==
    /\ IsPortCall /\ Finished /\ Len(files) = 5
    /\ \A i \in FileIndexes : results[i].written

PathOf(template) == {files[i].path : i \in {j \in FileIndexes : files[j].content[2] = template}}

\* C13: a port batch holds the service artifact exactly when includeService
\* is not false and the module artifact exactly when includeModule is not
\* false; interface, token and index are always in it; an excluded artifact
\* is neither attempted nor does its file change.
C13_InclusionFlags ==
    IsPortCall
    => LET n == call.opts.name
           o == call.opts.outputPath
           service == <<o, n, n \o ".service.ts">>
           module == <<o, n, n \o ".module.ts">>
       IN  /\ (PathOf("service.hbs") = {service}) <=> WithService
           /\ (PathOf("service.hbs") = {}) <=> ~WithService
           /\ (PathOf("module.hbs") = {module}) <=> WithModule
           /\ (PathOf("module.hbs") = {}) <=> ~WithModule
           /\ PathOf("interface.hbs") = {<<o, n, n \o ".port.ts">>}
           /\ PathOf("token.hbs") = {<<o, n, n \o ".token.ts">>}
           /\ PathOf("index.hbs") = {<<o, n, "index.ts">>}
           /\ ~WithService
                 => /\ service \notin BatchPaths
                    /\ fs[service] = pre.fs[service]
                    /\ \A i \in 1..Len(results) : results[i].path # service
           /\ ~WithModule
                 => /\ module \notin BatchPaths
                    /\ fs[module] = pre.fs[module]
                    /\ \A i \in 1..Len(results) : results[i].path # module

\* a finished port call that left the module out and wrote the service
C13_Witness ==
    /\ IsPortCall /\ Finished
    /\ call.opts.includeModule = Some(FALSE) /\ call.opts.includeService = Omitted
    /\ outcome.type = "returned"
    /\ \E i \in DoneWrites : files[i].content[2] = "service.hbs"
    /\ fs[<<call.opts.outputPath, call.opts.name, call.opts.name \o ".module.ts">>] = Absent

(***************************************************************************)
(* Name transformer (toKebabCase .. generateNameVariations).  A string is  *)
(* the sequence of its characters.                                         *)
(***************************************************************************)
\* longest input string of the name transformer
MaxNameLen == 5

LowerChars == {"a"}
UpperChars == {"A"}
DigitChars == {"1"}
\* \s in the regular expressions
SpaceChars == {" "}
NameAlphabet == LowerChars \cup UpperChars \cup DigitChars \cup SpaceChars \cup {"-", "_"}

StringsUpTo(alphabet, n) == UNION {[1..k -> alphabet] : k \in 0..n}

\* String.prototype.toUpperCase / toLowerCase, one character
UpperOf(c) == IF c = "a" THEN "A" ELSE c
LowerOf(c) == IF c = "A" THEN "a" ELSE c

toUpperCase(str) == [i \in 1..Len(str) |-> UpperOf(str[i])]
toLowerCase(str) == [i \in 1..Len(str) |-> LowerOf(str[i])]

RECURSIVE SplitCamel(_, _)
\* str.replace(/([a-z0-9])([A-Z])/g, '$1' + sep + '$2'): matches are taken
\* left to right and do not overlap
SplitCamel(str, sep) ==
    IF Len(str) < 2 THEN str
    ELSE IF str[1] \in LowerChars \cup DigitChars /\ str[2] \in UpperChars
         THEN <<str[1], sep, str[2]>> \o SplitCamel(SubSeq(str, 3, Len(str)), sep)
         ELSE <<str[1]>> \o SplitCamel(Tail(str), sep)

RECURSIVE SkipRun(_, _)
\* what is left of str after its longest prefix of characters of the class
SkipRun(str, class) ==
    IF str # <<>> /\ Head(str) \in class THEN SkipRun(Tail(str), class) ELSE str

RECURSIVE ReplaceRuns(_, _, _)
\* str.replace(/[class]+/g, sep)
ReplaceRuns(str, class, sep) ==
    IF str = <<>> THEN <<>>
    ELSE IF Head(str) \in class
         THEN <<sep>> \o ReplaceRuns(SkipRun(str, class), class, sep)
         ELSE <<Head(str)>> \o ReplaceRuns(Tail(str), class, sep)

\* a plausible slip: the result is not lower-cased
toKebabCaseNoLower(str) ==
    ReplaceRuns(SplitCamel(str, "-"), SpaceChars \cup {"_"}, "-")

toKebabCase(str) ==
    toLowerCase(ReplaceRuns(SplitCamel(str, "-"), SpaceChars \cup {"_"}, "-"))

RECURSIVE CamelJoin(_)
\* str.replace(/[-_\s]+(.)?/g, (_, c) => (c ? c.toUpperCase() : ''))
CamelJoin(str) ==
    IF str = <<>> THEN <<>>
    ELSE IF Head(str) \in SpaceChars \cup {"-", "_"}
         THEN LET rest == SkipRun(str, SpaceChars \cup {"-", "_"})
              IN  IF rest = <<>> THEN <<>>
                  ELSE <<UpperOf(Head(rest))>> \o CamelJoin(Tail(rest))
         ELSE <<Head(str)>> \o CamelJoin(Tail(str))

\* .replace(/^[A-Z]/, (c) => c.toLowerCase())
LowerFirstCapital(str) ==
    IF str # <<>> /\ Head(str) \in UpperChars
    THEN <<LowerOf(Head(str))>> \o Tail(str) ELSE str

toCamelCase(str) == LowerFirstCapital(CamelJoin(str))

\* a plausible slip: the first character is left as toCamelCase made it
toPascalCaseKeepsFirst(str) == toCamelCase(str)

\* camel.charAt(0).toUpperCase() + camel.slice(1)
toPascalCase(str) ==
    LET camel == toCamelCase(str)
    IN  IF camel = <<>> THEN <<>> ELSE <<UpperOf(Head(camel))>> \o Tail(camel)

\* a plausible slip: hyphens are not treated as separators by the snake form
toSnakeCaseKeepsHyphens(str) ==
    toLowerCase(ReplaceRuns(SplitCamel(str, "_"), SpaceChars, "_"))

toSnakeCase(str) ==
    toLowerCase(ReplaceRuns(SplitCamel(str, "_"), SpaceChars \cup {"-"}, "_"))

toScreamingSnakeCase(str) == toUpperCase(toSnakeCase(str))

generateNameVariations(name) ==
    [original |-> name,
     kebab |-> toKebabCase(name),
     camel |-> toCamelCase(name),
     pascal |-> toPascalCase(name),
     snake |-> toSnakeCase(name),
     screamingSnake |-> toScreamingSnakeCase(name)]

Casings == {"kebab", "camel", "pascal", "snake", "screamingSnake"}

\* the generator state of a run that only evaluates pure functions
GeneratorsIdle ==
    /\ fs = [p \in Paths |-> Absent]
    /\ dirs = {}
    /\ unwritable = {}
    /\ pc = "idle"
    /\ call = NoCall
    /\ files = <<>>
    /\ gfDryRun = FALSE
    /\ gfForce = FALSE
    /\ idx = 1
    /\ generatedFiles = <<>>
    /\ failures = <<>>
    /\ results = <<>>
    /\ outcome = NoOutcome
    /\ lastWrite = NoWrite
    /\ pre = [fs |-> fs, dirs |-> dirs]
    /\ nops = 0

genVars == <<fs, dirs, unwritable, pc, call, files, gfDryRun, gfForce, idx,
             generatedFiles, failures, results, outcome, lastWrite, pre, nops>>

NameInit ==
    /\ GeneratorsIdle
    /\ arg \in [fn : {"generateNameVariations"}, name : StringsUpTo(NameAlphabet, MaxNameLen)]
    /\ ret = NoRet

\* generateNameVariations(name)
DeriveNames ==
    /\ arg.fn = "generateNameVariations"
    /\ ret = NoRet
    /\ ret' = [type |-> "variations", names |-> generateNameVariations(arg.name)]
    /\ UNCHANGED <<arg, genVars>>

\* generateNameVariations applied to one of the casings it has derived
RederiveNames(casing) ==
    /\ ret.type = "variations"
    /\ ret' = [type |-> "rederived", names |-> ret.names, casing |-> casing,
               again |-> generateNameVariations(ret.names[casing])]
    /\ UNCHANGED <<arg, genVars>>

NameNext ==
    \/ DeriveNames
    \/ \E casing \in Casings : RederiveNames(casing)

NameSpec == NameInit /\ [][NameNext]_vars

\* the last call derived the variations of arg.name
Derived == arg.fn = "generateNameVariations" /\ ret.type = "variations"
Rederived == arg.fn = "generateNameVariations" /\ ret.type = "rederived"

SameCasings(n1, n2) == \A c \in Casings : n1[c] = n2[c]

\* a kebab-case name: words of two or more characters, a lowercase letter
\* followed by lowercase letters or digits, joined by single hyphens
IsKebabName(str) ==
    /\ str # <<>>
    /\ \A i \in 1..Len(str) :
          /\ str[i] \in LowerChars \cup DigitChars \cup {"-"}
          /\ (i = 1 \/ str[i] = "-")
                => LET w == IF i = 1 THEN 1 ELSE i + 1
                   IN  /\ w + 1 <= Len(str)
                       /\ str[w] \in LowerChars
                       /\ str[w + 1] \in LowerChars \cup DigitChars

\* C16 as stated: for every input, the variations derived from any one of
\* its derived casings equal the variations derived from the input.
C16_RederiveFromAnyCasing ==
    Rederived => SameCasings(ret.again, ret.names)

\* C16 amended: for every kebab-case input (words of two or more characters,
\* a lowercase letter then lowercase letters or digits, joined by single
\* hyphens) the variations derived from its kebab, camel, pascal or snake
\* casing equal those derived from the input.
C16_RederiveFromKebabName ==
    (Rederived /\ IsKebabName(arg.name) /\ ret.casing # "screamingSnake")
    => SameCasings(ret.again, ret.names)

C16_Witness ==
    /\ Rederived /\ IsKebabName(arg.name) /\ ret.casing = "pascal"
    /\ \E i \in 1..Len(arg.name) : arg.name[i] = "-"
    /\ ret.names.pascal # arg.name
    /\ SameCasings(ret.again, ret.names)

IsSeparator(c) == c \in SpaceChars \cup {"-", "_"}

\* the first character of str that is not a hyphen, underscore or whitespace
\* is a letter
StartsWithLetter(str) ==
    \E i \in 1..Len(str) :
       /\ str[i] \in LowerChars \cup UpperChars
       /\ \A j \in 1..(i - 1) : IsSeparator(str[j])

NoneIn(str, class) == \A i \in 1..Len(str) : str[i] \notin class

\* C17 as stated: for every non-empty input, pascal starts with an uppercase
\* letter, camel starts with a lowercase letter, screamingSnake has no
\* lowercase letter, kebab no underscore and snake no hyphen.
C17_CasingShapes ==
    (Derived /\ arg.name # <<>>)
    => /\ ret.names.pascal # <<>> /\ ret.names.pascal[1] \in UpperChars
       /\ ret.names.camel # <<>> /\ ret.names.camel[1] \in LowerChars
       /\ NoneIn(ret.names.screamingSnake, LowerChars)
       /\ NoneIn(ret.names.kebab, {"_"})
       /\ NoneIn(ret.names.snake, {"-"})

\* C17 amended: for every non-empty input, screamingSnake has no lowercase
\* letter, kebab no underscore and snake no hyphen; pascal starts with an
\* uppercase letter and camel with a lowercase letter when the first character
\* of the input other than hyphen, underscore and whitespace is a letter.
C17_CasingShapesOfLetterNames ==
    (Derived /\ arg.name # <<>>)
    => /\ NoneIn(ret.names.screamingSnake, LowerChars)
       /\ NoneIn(ret.names.kebab, {"_"})
       /\ NoneIn(ret.names.snake, {"-"})
       /\ StartsWithLetter(arg.name)
             => /\ ret.names.pascal # <<>> /\ ret.names.pascal[1] \in UpperChars
                /\ ret.names.camel # <<>> /\ ret.names.camel[1] \in LowerChars

C17_Witness ==
    /\ Derived /\ StartsWithLetter(arg.name)
    /\ arg.name[1] = "_" /\ Len(arg.name) >= 4
    /\ \E i \in 1..Len(arg.name) : arg.name[i] = "-"
    /\ \E i \in 1..Len(arg.name) : arg.name[i] \in SpaceChars
    /\ ret.names.camel[1] = "a"

RECURSIVE WordsFrom(_, _, _)
\* the lowercase words of str from position i on, cur being the word begun:
\* a word ends at a run of separators and between a lowercase letter or digit
\* and an uppercase letter that follows it
WordsFrom(str, i, cur) ==
    IF i > Len(str) THEN (IF cur = <<>> THEN <<>> ELSE <<cur>>)
    ELSE IF IsSeparator(str[i])
         THEN (IF cur = <<>> THEN <<>> ELSE <<cur>>) \o WordsFrom(str, i + 1, <<>>)
         ELSE IF /\ cur # <<>>
                 /\ str[i] \in UpperChars
                 /\ str[i - 1] \in LowerChars \cup DigitChars
              THEN <<cur>> \o WordsFrom(str, i + 1, <<LowerOf(str[i])>>)
              ELSE WordsFrom(str, i + 1, Append(cur, LowerOf(str[i])))

WordsOf(str) == WordsFrom(str, 1, <<>>)

RECURSIVE JoinWords(_, _)
JoinWords(words, sep) ==
    IF words = <<>> THEN <<>>
    ELSE IF Len(words) = 1 THEN words[1]
         ELSE words[1] \o <<sep>> \o JoinWords(Tail(words), sep)

RECURSIVE Capitalised(_)
\* the words, each with its first letter in upper case, concatenated
Capitalised(words) ==
    IF words = <<>> THEN <<>>
    ELSE <<UpperOf(words[1][1])>> \o Tail(words[1]) \o Capitalised(Tail(words))

\* the five casings as the word sequence gives them
WordCasings(words) ==
    LET pascal == Capitalised(words)
    IN  [kebab |-> JoinWords(words, "-"),
         snake |-> JoinWords(words, "_"),
         screamingSnake |-> toUpperCase(JoinWords(words, "_")),
         pascal |-> pascal,
         camel |-> IF pascal = <<>> THEN <<>>
                   ELSE <<LowerOf(pascal[1])>> \o Tail(pascal)]

\* no separator begins or ends str and no two separators are adjacent
SingleSeparators(str) ==
    /\ str # <<>> => ~IsSeparator(str[1]) /\ ~IsSeparator(str[Len(str)])
    /\ \A i \in 1..(Len(str) - 1) : ~(IsSeparator(str[i]) /\ IsSeparator(str[i + 1]))

\* no two uppercase letters are adjacent
NoUpperRun(str) ==
    \A i \in 1..(Len(str) - 1) : ~(str[i] \in UpperChars /\ str[i + 1] \in UpperChars)

FileCases == {"kebab", "camel", "pascal"}
ArtifactNames == {str \in StringsUpTo(NameAlphabet, MaxNameLen) : IsKebabName(str)}
PortNames == {<<"a", "a">>, <<"a", "1", "-", "a", "a">>}
Up == <<"..">>
SrcPorts == << <<"src">>, <<"ports">> >>
SrcServices == << <<"src">>, <<"services">> >>
PortsDirs == {SrcPorts, << <<"ports">> >>, << <<"lib">>, <<"contracts">> >>}
ServiceOutputPaths ==
    {SrcServices, << <<"adapters">> >>, << <<"src">>, <<"app">>, <<"services">> >>}
PortPaths == {<<Up, <<"contracts">> >>}

Optional(S) == {Omitted} \cup {Some(v) : v \in S}

basename(path) == path[Len(path)]
join(dir, segment) == Append(dir, segment)

getFileName(name, fileCase) ==
    LET names == generateNameVariations(name)
    IN  CASE fileCase = "camel" -> names.camel
          [] fileCase = "pascal" -> names.pascal
          [] OTHER -> names.kebab

\* { ...base, ...extra }: a key of extra replaces the same key of base
Spread(base, extra) ==
    [f \in DOMAIN base \cup DOMAIN extra |->
        IF f \in DOMAIN extra THEN extra[f] ELSE base[f]]

\* a plausible slip: the identifiers handed to the templates follow the file case
createTemplateContextCasedPerFile(opts, config, additionalContext) ==
    LET names == generateNameVariations(opts.name)
        fileCase == Default(config.fileCase, "kebab")
        fileName == getFileName(opts.name, fileCase)
    IN  Spread([original |-> names.original, kebab |-> names.kebab,
                camel |-> names.camel, pascal |-> names.pascal, snake |-> names.snake,
                screamingSnake |-> names.screamingSnake,
                nameKebab |-> names.kebab, nameCamel |-> names.camel,
                namePascal |-> fileName, nameSnake |-> names.snake,
                nameScreamingSnake |-> names.screamingSnake,
                fileName |-> fileName, fileCase |-> fileCase],
               additionalContext)

createTemplateContext(opts, config, additionalContext) ==
    LET names == generateNameVariations(opts.name)
        fileCase == Default(config.fileCase, "kebab")
        fileName == getFileName(opts.name, fileCase)
    IN  Spread([original |-> names.original, kebab |-> names.kebab,
                camel |-> names.camel, pascal |-> names.pascal, snake |-> names.snake,
                screamingSnake |-> names.screamingSnake,
                nameKebab |-> names.kebab, nameCamel |-> names.camel,
                namePascal |-> names.pascal, nameSnake |-> names.snake,
                nameScreamingSnake |-> names.screamingSnake,
                fileName |-> fileName, fileCase |-> fileCase],
               additionalContext)

NoPortContext == <<>>

\* the port-related context of the service generator that injects a port
PortContext(opts, config) ==
    IF opts.portName = Omitted THEN NoPortContext
    ELSE LET portNameVariations == generateNameVariations(opts.portName[1])
             portsDir == Default(config.portsDir, << <<"ports">> >>)
             portsDirName == basename(portsDir)
             portImportPath ==
                 IF opts.portPath = Omitted
                 THEN <<Up, Up, portsDirName, portNameVariations.kebab>>
                 ELSE opts.portPath[1]
         IN  [portName |-> portNameVariations.pascal,
              portNameCamel |-> portNameVariations.camel,
              portNameKebab |-> portNameVariations.kebab,
              portTokenName |-> portNameVariations.screamingSnake,
              portImportPath |-> portImportPath,
              portTokenImportPath |-> portImportPath]

\* directory of the port generator's files
PortOutputDir(opts, config) ==
    Default(opts.outputPath, Default(config.portsDir, SrcPorts))

\* directory of the service generators' files
ServiceOutputDir(opts, config) ==
    Default(opts.outputPath, Default(config.portsDir, SrcServices))

Named(stem, suffix) == stem \o <<suffix>>

\* the paths PortGenerator.generate lists, in order
PortFilePaths(opts, config) ==
    LET context == createTemplateContext(opts, config, NoPortContext)
        fileName == getFileName(opts.name, context.fileCase)
        portDir == join(PortOutputDir(opts, config), fileName)
    IN  [context |-> context, dir |-> portDir,
         paths |-> << join(portDir, Named(fileName, ".port.ts")),
                      join(portDir, Named(fileName, ".token.ts")) >>
                   \o (IF Default(opts.includeService, TRUE)
                       THEN << join(portDir, Named(fileName, ".service.ts")) >>
                       ELSE <<>>)
                   \o (IF Default(opts.includeModule, TRUE)
                       THEN << join(portDir, Named(fileName, ".module.ts")) >>
                       ELSE <<>>)
                   \o << join(portDir, <<"index.ts">>) >>]

\* a plausible slip: the directory and the file are named after the port
ServiceFilePathsNamedAfterPort(kind, opts, config) ==
    LET context == createTemplateContext(opts, config,
                      IF kind = "serviceInject" THEN PortContext(opts, config)
                      ELSE NoPortContext)
        stem == IF "portNameKebab" \in DOMAIN context THEN context.portNameKebab
                ELSE context.nameKebab
        serviceDir == join(ServiceOutputDir(opts, config), stem)
    IN  [context |-> context, dir |-> serviceDir,
         paths |-> << join(serviceDir, Named(stem, ".service.ts")) >>]

\* the path either ServiceGenerator.generate lists
ServiceFilePaths(kind, opts, config) ==
    LET context == createTemplateContext(opts, config,
                      IF kind = "serviceInject" THEN PortContext(opts, config)
                      ELSE NoPortContext)
        serviceDir == join(ServiceOutputDir(opts, config), context.nameKebab)
    IN  [context |-> context, dir |-> serviceDir,
         paths |-> << join(serviceDir, Named(context.nameKebab, ".service.ts")) >>]

FilePathsOf(kind, opts, config) ==
    IF kind = "port" THEN PortFilePaths(opts, config)
    ELSE ServiceFilePaths(kind, opts, config)

LayoutOptions(kind) ==
    [name : ArtifactNames,
     outputPath : IF kind = "port" THEN Optional({SrcPorts})
                  ELSE Optional(ServiceOutputPaths),
     includeService : IF kind = "port" THEN Optional(BOOLEAN) ELSE {Omitted},
     includeModule : IF kind = "port" THEN Optional(BOOLEAN) ELSE {Omitted},
     portName : IF kind = "serviceInject" THEN Optional(PortNames) ELSE {Omitted},
     portPath : IF kind = "serviceInject" THEN Optional(PortPaths) ELSE {Omitted}]

LayoutConfigs == [fileCase : Optional(FileCases), portsDir : Optional(PortsDirs)]

\* the additionalContext a generator may hand to createTemplateContext:
\* nothing, what the service generator hands over for a port, or a record
\* that carries a key of the base context
ExtraKinds == {"none", "port", "kebab", "namePascal"}
ExtraContextOf(kind, config) ==
    CASE kind = "port" ->
            PortContext([portName |-> Some(<<"a", "1", "-", "a", "a">>),
                         portPath |-> Omitted], config)
      [] kind = "kebab" -> [kebab |-> <<"a", "1">>]
      [] kind = "namePascal" -> [namePascal |-> <<"A", "1">>]
      [] OTHER -> NoPortContext

LayoutInit ==
    /\ GeneratorsIdle
    /\ \/ \E kind \in Kinds :
             arg \in [fn : {"generate"}, kind : {kind}, opts : LayoutOptions(kind),
                      config : LayoutConfigs]
       \/ arg \in [fn : {"createTemplateContext"}, kind : {"service"},
                   opts : LayoutOptions("service"), config : LayoutConfigs,
                   extra : ExtraKinds]
    /\ ret = NoRet

\* this.createTemplateContext(options, additionalContext)
CreateContext ==
    /\ arg.fn = "createTemplateContext"
    /\ ret = NoRet
    /\ ret' = [type |-> "context",
               context |-> createTemplateContext(arg.opts, arg.config,
                              ExtraContextOf(arg.extra, arg.config))]
    /\ UNCHANGED <<arg, genVars>>

\* new Generator(config).generate(opts), as far as paths and context go
GenerateLayout ==
    /\ arg.fn = "generate"
    /\ ret = NoRet
    /\ ret' = [type |-> "generated",
               layout |-> FilePathsOf(arg.kind, arg.opts, arg.config)]
    /\ UNCHANGED <<arg, genVars>>

\* the same call under a configuration that differs in the file case only
GenerateWithFileCase(fileCase) ==
    /\ ret.type = "generated"
    /\ ret' = [type |-> "regenerated", layout |-> ret.layout, fileCase |-> fileCase,
               again |-> FilePathsOf(arg.kind, arg.opts,
                                     [arg.config EXCEPT !.fileCase = Some(fileCase)])]
    /\ UNCHANGED <<arg, genVars>>

LayoutNext ==
    \/ GenerateLayout
    \/ \E fileCase \in FileCases : GenerateWithFileCase(fileCase)
    \/ CreateContext

LayoutSpec == LayoutInit /\ [][LayoutNext]_vars

Generated == arg.fn = "generate" /\ ret.type = "generated"
Regenerated == arg.fn = "generate" /\ ret.type = "regenerated"

ConfiguredFileCase == Default(arg.config.fileCase, "kebab")

\* the primary name in the configured file-naming case
CasedName == generateNameVariations(arg.opts.name)[ConfiguredFileCase]

\* the output directory of the call: the option, else the kind's default
OutputDirOf(kind, opts, config) ==
    IF kind = "port" THEN PortOutputDir(opts, config)
    ELSE ServiceOutputDir(opts, config)

IsPrefix(p, str) == Len(p) <= Len(str) /\ SubSeq(str, 1, Len(p)) = p

IsManifest(path) == basename(path) = <<"index.ts">>

\* C14: for every generator kind the files are in the directory named by the
\* primary name in the configured file-naming case, directly under the output
\* directory, and every file but the manifest has a basename that begins
\* with that cased name.
C14_FilesNamedPerFileCase ==
    Generated
    => /\ ret.layout.dir = join(OutputDirOf(arg.kind, arg.opts, arg.config), CasedName)
       /\ \A i \in 1..Len(ret.layout.paths) :
             LET path == ret.layout.paths[i]
             IN  /\ SubSeq(path, 1, Len(path) - 1) = ret.layout.dir
                 /\ ~IsManifest(path) => IsPrefix(CasedName, basename(path))

IdentifierFields ==
    {"original", "kebab", "camel", "pascal", "snake", "screamingSnake",
     "nameKebab", "nameCamel", "namePascal", "nameSnake", "nameScreamingSnake"}

PortFields ==
    {"portName", "portNameCamel", "portNameKebab", "portTokenName",
     "portImportPath", "portTokenImportPath"}

\* the part of a basename after the cased name
RoleOf(path, stem) ==
    IF IsManifest(path) THEN basename(path)
    ELSE SubSeq(basename(path), Len(stem) + 1, Len(basename(path)))

StemOf(layout) == basename(layout.dir)

\* C15: changing only the configured file-naming case leaves every name
\* variation handed to the templates as it was (and the port reference with
\* them); the same files are listed under the same output directory, and only
\* the directory name and the basenames' leading name may differ.
C15_FileCaseLeavesIdentifiers ==
    Regenerated
    => /\ \A f \in IdentifierFields : ret.again.context[f] = ret.layout.context[f]
       /\ DOMAIN ret.again.context = DOMAIN ret.layout.context
       /\ \A f \in PortFields \cap DOMAIN ret.layout.context :
             ret.again.context[f] = ret.layout.context[f]
       /\ Len(ret.again.paths) = Len(ret.layout.paths)
       /\ SubSeq(ret.again.dir, 1, Len(ret.again.dir) - 1)
             = SubSeq(ret.layout.dir, 1, Len(ret.layout.dir) - 1)
       /\ \A i \in 1..Len(ret.layout.paths) :
             /\ SubSeq(ret.again.paths[i], 1, Len(ret.again.dir)) = ret.again.dir
             /\ RoleOf(ret.again.paths[i], StemOf(ret.again))
                   = RoleOf(ret.layout.paths[i], StemOf(ret.layout))

C15_Witness ==
    /\ Regenerated /\ arg.kind = "port"
    /\ ConfiguredFileCase = "kebab" /\ ret.fileCase = "pascal"
    /\ ret.again.context.fileName # ret.layout.context.fileName
    /\ ret.again.dir # ret.layout.dir
    /\ ret.again.context.pascal = ret.layout.context.pascal
    /\ ret.again.context.screamingSnake = ret.layout.context.screamingSnake

RECURSIVE CommonPrefixLen(_, _)
CommonPrefixLen(p, q) ==
    IF p # <<>> /\ q # <<>> /\ Head(p) = Head(q)
    THEN 1 + CommonPrefixLen(Tail(p), Tail(q))
    ELSE 0

\* the relative path from directory from to directory to
RelativePath(from, to) ==
    LET n == CommonPrefixLen(from, to)
    IN  [i \in 1..(Len(from) - n) |-> Up] \o SubSeq(to, n + 1, Len(to))

\* the directory the port generator gives the referenced port under the
\* same configuration
GeneratedPortDir ==
    PortFilePaths([name |-> arg.opts.portName[1], outputPath |-> Omitted,
                   includeService |-> Omitted, includeModule |-> Omitted],
                  arg.config).dir

\* C19: the reference the service generator emits for its port is the
\* relative path from the directory of the generated service file to the
\* port's directory as the port generator made it, without a backslash.
C19_ReferenceIsRelativePath ==
    (Generated /\ arg.kind = "serviceInject"
       /\ arg.opts.portName # Omitted /\ arg.opts.portPath = Omitted)
    => LET reference == ret.layout.context.portImportPath
       IN  /\ reference = RelativePath(ret.layout.dir, GeneratedPortDir)
           /\ \A i \in 1..Len(reference) : NoneIn(reference[i], {"\\"})

Created == arg.fn = "createTemplateContext" /\ ret.type = "context"

\* the context field of each name variation and of its alias
VariationOf(field) ==
    CASE field = "nameKebab" -> "kebab"
      [] field = "nameCamel" -> "camel"
      [] field = "namePascal" -> "pascal"
      [] field = "nameSnake" -> "snake"
      [] field = "nameScreamingSnake" -> "screamingSnake"
      [] OTHER -> field

\* every name variation in the context is the one of names
CarriesNames(context, names) ==
    \A f \in IdentifierFields : context[f] = names[VariationOf(f)]

\* the directory is named by a casing of names and every file but the
\* manifest by that directory name and a suffix
NamedBy(layout, names) ==
    /\ basename(layout.dir) \in {names[c] : c \in FileCases}
    /\ \A i \in 1..Len(layout.paths) :
          LET path == layout.paths[i]
          IN  /\ SubSeq(path, 1, Len(path) - 1) = layout.dir
              /\ ~IsManifest(path)
                    => SubSeq(basename(path), 1, Len(basename(path)) - 1)
                          = basename(layout.dir)

\* the port fields of the context are the variations of the port's name
CarriesPortNames(context, names) ==
    /\ context.portName = names.pascal
    /\ context.portNameCamel = names.camel
    /\ context.portNameKebab = names.kebab
    /\ context.portTokenName = names.screamingSnake

\* a generate call names its directory and files and fills its context from
\* the variations of the primary name, and of the port's name for the port
GeneratedFromOneSet ==
    Generated
    => LET names == generateNameVariations(arg.opts.name)
       IN  /\ CarriesNames(ret.layout.context, names)
           /\ ret.layout.context.fileName = names[ret.layout.context.fileCase]
           /\ NamedBy(ret.layout, names)
           /\ (arg.kind = "serviceInject" /\ arg.opts.portName # Omitted)
                 => CarriesPortNames(ret.layout.context,
                                     generateNameVariations(arg.opts.portName[1]))

MaxDepth == 2

SegmentNames ==
    { <<"a">>, <<"b">>, <<".", "a">>, <<"a", ".", "t", "s">>,
      <<"b", ".", "j", "s">>, <<"a", ".", "t", "s", "x">> }

PathsUpTo(n) == UNION {[1..k -> SegmentNames] : k \in 0..n}

RECURSIVE JoinSegments(_)
JoinSegments(segments) ==
    IF segments = <<>> THEN <<>>
    ELSE IF Len(segments) = 1 THEN Head(segments)
    ELSE Head(segments) \o <<"/">> \o JoinSegments(Tail(segments))

\* path.dirname
pathDirname(path) == SubSeq(path, 1, Len(path) - 1)

RECURSIVE SharedLen(_, _)
SharedLen(p, q) ==
    IF p # <<>> /\ q # <<>> /\ Head(p) = Head(q)
    THEN 1 + SharedLen(Tail(p), Tail(q))
    ELSE 0

\* path.relative of two directories' segments, as text with forward slashes
getRelativePath(from, to) ==
    LET n == SharedLen(from, to)
    IN  JoinSegments([i \in 1..(Len(from) - n) |-> <<".", ".">>]
                     \o SubSeq(to, n + 1, Len(to)))

EndsWith(str, suffix) ==
    Len(suffix) <= Len(str)
    /\ SubSeq(str, Len(str) - Len(suffix) + 1, Len(str)) = suffix

\* replace(/\.(ts|js)$/, '')
RemoveExtension(str) ==
    IF EndsWith(str, <<".", "t", "s">>) \/ EndsWith(str, <<".", "j", "s">>)
    THEN SubSeq(str, 1, Len(str) - 3)
    ELSE str

getImportPath(from, to) ==
    LET relative == getRelativePath(pathDirname(from), to)
        withoutExt == RemoveExtension(relative)
    IN  IF withoutExt # <<>> /\ Head(withoutExt) = "."
        THEN withoutExt
        ELSE <<".", "/">> \o withoutExt

PathInit ==
    /\ GeneratorsIdle
    /\ arg \in [fn : {"getImportPath"},
                from : PathsUpTo(MaxDepth) \ {<<>>},
                to : PathsUpTo(MaxDepth)]
    /\ ret = NoRet

ImportPath ==
    /\ arg.fn = "getImportPath"
    /\ ret = NoRet
    /\ ret' = [type |-> "importPath", value |-> getImportPath(arg.from, arg.to)]
    /\ UNCHANGED <<arg, genVars>>

PathNext == ImportPath

PathSpec == PathInit /\ [][PathNext]_vars

Imported == arg.fn = "getImportPath" /\ ret.type = "importPath"

\* str is the segment itself or begins with the segment and a slash
BeginsWithSegment(str, segment) ==
    str = segment \/ IsPrefix(segment \o <<"/">>, str)

\* the relative path of the call, extension removed
RelativeWithoutExt == RemoveExtension(getRelativePath(pathDirname(arg.from), arg.to))

\* C18: for every from-file and target the reference begins with './' or with
\* the traversal segment '..': './' is prefixed whenever the relative path,
\* extension removed, does not begin with a traversal segment, and a target
\* in the from-file's directory yields './name'.
C18_ReferenceIsRelative ==
    Imported
    => /\ IsPrefix(<<".", "/">>, ret.value) \/ BeginsWithSegment(ret.value, <<".", ".">>)
       /\ ~BeginsWithSegment(RelativeWithoutExt, <<".", ".">>)
             => ret.value = <<".", "/">> \o RelativeWithoutExt
       /\ (arg.to # <<>> /\ pathDirname(arg.to) = pathDirname(arg.from))
             => ret.value = <<".", "/">> \o RemoveExtension(basename(arg.to))

(***************************************************************************)
(* applyStyleConfig: the style passes run over rendered text.  A text is a *)
(* sequence of characters; a word the patterns look for is one element.    *)
(***************************************************************************)
MaxFragments == 3

StyleFragments ==
    { <<"a">>, <<";">>, <<"{">>, <<"\n">>, <<"\t">>,
      <<"export", " ", "a">>,
      <<"import", " ", "a", " ", "from", " ", "'", "b", "'">>,
      <<"Symbol(", "'", "a", "'", ")">>,
      <<"//">>,
      <<"export", " ", "*", " ", "from", " ", "'", "b", "'">>,
      <<"'", "c", "'">> }

RECURSIVE Flatten(_)
Flatten(fragments) ==
    IF fragments = <<>> THEN <<>> ELSE Head(fragments) \o Flatten(Tail(fragments))

Texts == {Flatten(fragments) :
             fragments \in UNION {[1..k -> StyleFragments] : k \in 0..MaxFragments}}

Quotes == {"single", "double"}
Indents == {"tab", "2", "4"}
SpacesOf(indent) == IF indent = "2" THEN 2 ELSE 4

\* \s
IsSpace(c) == c \in {" ", "\t", "\n"}

\* length of the run of whitespace that starts at index i
RECURSIVE SpaceRun(_, _)
SpaceRun(str, i) ==
    IF i <= Len(str) /\ IsSpace(str[i]) THEN 1 + SpaceRun(str, i + 1) ELSE 0

\* ^ and $ under the m flag
AtLineStart(str, i) == i = 1 \/ str[i - 1] = "\n"
AtLineEnd(str, i) == i > Len(str) \/ str[i] = "\n"

\* index of the quote that closes '([^']+)' opened at index i, or 0
ClosingQuote(str, i) ==
    IF i <= Len(str) /\ str[i] = "'"
       /\ \E e \in (i + 2)..Len(str) : str[e] = "'"
       /\ (i + 1 <= Len(str) => str[i + 1] # "'")
    THEN CHOOSE e \in (i + 2)..Len(str) :
            str[e] = "'" /\ \A k \in (i + 1)..(e - 1) : str[k] # "'"
    ELSE 0

\* \s+from\s+'([^']+)' at index p: the indexes of its two quotes, or <<>>
FromClause(str, p) ==
    LET q == p + SpaceRun(str, p)
        r == q + 1 + SpaceRun(str, q + 1)
    IN  IF /\ SpaceRun(str, p) >= 1
           /\ q <= Len(str) /\ str[q] = "from"
           /\ SpaceRun(str, q + 1) >= 1
           /\ ClosingQuote(str, r) # 0
        THEN <<r, ClosingQuote(str, r)>>
        ELSE <<>>

\* the ways import\s+(.+?)\s+from\s+'([^']+)' matches at index i: the length
\* of the first whitespace and of (.+?)
ImportMatches(str, i) ==
    IF str[i] # "import" THEN {}
    ELSE {m \in (1..Len(str)) \X (1..Len(str)) :
            /\ m[1] <= SpaceRun(str, i + 1)
            /\ i + m[1] + m[2] <= Len(str)
            /\ \A k \in (i + m[1] + 1)..(i + m[1] + m[2]) : str[k] # "\n"
            /\ FromClause(str, i + m[1] + m[2] + 1) # <<>>}

\* the match the engine finds first: longest whitespace, then shortest (.+?)
FirstImportMatch(str, i) ==
    CHOOSE m \in ImportMatches(str, i) :
       \A n \in ImportMatches(str, i) :
          m[1] > n[1] \/ (m[1] = n[1] /\ m[2] <= n[2])

\* replace(/import\s+(.+?)\s+from\s+'([^']+)'/g, 'import $1 from "$2"')
RECURSIVE ReplaceImports(_, _)
ReplaceImports(str, i) ==
    IF i > Len(str) THEN <<>>
    ELSE IF ImportMatches(str, i) = {} THEN <<str[i]>> \o ReplaceImports(str, i + 1)
    ELSE LET m == FirstImportMatch(str, i)
             quotes == FromClause(str, i + m[1] + m[2] + 1)
         IN  <<"import", " ">> \o SubSeq(str, i + m[1] + 1, i + m[1] + m[2])
             \o <<" ", "from", " ", "\"">>
             \o SubSeq(str, quotes[1] + 1, quotes[2] - 1) \o <<"\"">>
             \o ReplaceImports(str, quotes[2] + 1)

\* replace(/Symbol\('([^']+)'\)/g, 'Symbol("$1")')
RECURSIVE ReplaceSymbols(_, _)
ReplaceSymbols(str, i) ==
    IF i > Len(str) THEN <<>>
    ELSE LET e == ClosingQuote(str, i + 1)
         IN  IF str[i] = "Symbol(" /\ e # 0 /\ e + 1 <= Len(str) /\ str[e + 1] = ")"
             THEN <<"Symbol(", "\"">> \o SubSeq(str, i + 2, e - 1) \o <<"\"", ")">>
                  \o ReplaceSymbols(str, e + 2)
             ELSE <<str[i]>> \o ReplaceSymbols(str, i + 1)

\* the ways ^(export\s+.+?)(\s*)$ matches at index i: the lengths of the
\* first whitespace, of (.+?) and of (\s*)
ExportMatches(str, i) ==
    IF ~(AtLineStart(str, i) /\ str[i] = "export") THEN {}
    ELSE UNION {UNION {{<<a, b, c>> :
                          c \in {c \in 0..SpaceRun(str, i + a + b + 1) :
                                    AtLineEnd(str, i + a + b + c + 1)}} :
                       b \in {b \in 1..(Len(str) - i - a) :
                                 \A k \in (i + a + 1)..(i + a + b) : str[k] # "\n"}} :
                a \in 1..SpaceRun(str, i + 1)}

\* longest first whitespace, then shortest (.+?), then longest (\s*)
FirstExportMatch(str, i) ==
    CHOOSE m \in ExportMatches(str, i) :
       \A n \in ExportMatches(str, i) :
          \/ m[1] > n[1]
          \/ m[1] = n[1] /\ m[2] < n[2]
          \/ m[1] = n[1] /\ m[2] = n[2] /\ m[3] >= n[3]

\* code.trim()
RECURSIVE TrimEnd(_)
TrimEnd(str) ==
    IF str # <<>> /\ IsSpace(str[Len(str)])
    THEN TrimEnd(SubSeq(str, 1, Len(str) - 1))
    ELSE str

\* the callback's test: the trimmed code already ends with ';' or with '{'
KeepsLine(code) ==
    LET trimmed == TrimEnd(code)
    IN  trimmed[Len(trimmed)] \in {";", "{"}

\* replace(/^(export\s+.+?)(\s*)$/gm, callback)
RECURSIVE AddSemicolons(_, _)
AddSemicolons(str, i) ==
    IF i > Len(str) THEN <<>>
    ELSE IF ExportMatches(str, i) = {} THEN <<str[i]>> \o AddSemicolons(str, i + 1)
    ELSE LET m == FirstExportMatch(str, i)
             code == SubSeq(str, i, i + m[1] + m[2])
             whitespace == SubSeq(str, i + m[1] + m[2] + 1, i + m[1] + m[2] + m[3])
         IN  code \o (IF KeepsLine(code) THEN <<>> ELSE <<";">>) \o whitespace
             \o AddSemicolons(str, i + m[1] + m[2] + m[3] + 1)

\* ;(\s*$) matches at index i
EndsLine(str, i) ==
    /\ str[i] = ";"
    /\ \E w \in 0..SpaceRun(str, i + 1) : AtLineEnd(str, i + 1 + w)

\* replace(/;(\s*$)/gm, '$1'): the matches are a semicolon and whitespace, so
\* they never overlap
RECURSIVE RemoveSemicolons(_, _)
RemoveSemicolons(str, i) ==
    IF i > Len(str) THEN <<>>
    ELSE IF EndsLine(str, i)
    THEN LET w == CHOOSE w \in 0..SpaceRun(str, i + 1) :
                     /\ AtLineEnd(str, i + 1 + w)
                     /\ \A v \in 0..SpaceRun(str, i + 1) :
                           AtLineEnd(str, i + 1 + v) => v <= w
         IN  SubSeq(str, i + 1, i + w) \o RemoveSemicolons(str, i + w + 1)
    ELSE <<str[i]>> \o RemoveSemicolons(str, i + 1)

\* replace(/\t/g, ' '.repeat(indent))
RECURSIVE ReplaceTabs(_, _)
ReplaceTabs(str, n) ==
    IF str = <<>> THEN <<>>
    ELSE (IF Head(str) = "\t" THEN [k \in 1..n |-> " "] ELSE <<Head(str)>>)
         \o ReplaceTabs(Tail(str), n)

applyStyleConfig(content, context) ==
    LET quoted == IF context.quotes = "double"
                  THEN ReplaceSymbols(ReplaceImports(content, 1), 1)
                  ELSE content
        punctuated == IF context.semicolons
                      THEN AddSemicolons(quoted, 1)
                      ELSE RemoveSemicolons(quoted, 1)
    IN  IF context.indent # "tab"
        THEN ReplaceTabs(punctuated, SpacesOf(context.indent))
        ELSE punctuated

StyleProfiles == [quotes : Quotes, semicolons : BOOLEAN, indent : Indents]

StyleInit ==
    /\ GeneratorsIdle
    /\ arg \in [fn : {"applyStyleConfig"}, content : Texts, context : StyleProfiles]
    /\ ret = NoRet

\* styled = applyStyleConfig(content, context)
ApplyStyle ==
    /\ arg.fn = "applyStyleConfig"
    /\ ret = NoRet
    /\ ret' = [type |-> "styled", once |-> applyStyleConfig(arg.content, arg.context)]
    /\ UNCHANGED <<arg, genVars>>

\* the same profile applied to the styled text
ApplyStyleAgain ==
    /\ ret.type = "styled"
    /\ ret' = [type |-> "restyled", once |-> ret.once,
               twice |-> applyStyleConfig(ret.once, arg.context)]
    /\ UNCHANGED <<arg, genVars>>

StyleNext == ApplyStyle \/ ApplyStyleAgain

StyleSpec == StyleInit /\ [][StyleNext]_vars

\* C20: for every text and every style profile, applying the style passes to
\* their own output returns that output unchanged.
C20_StyleIdempotent ==
    (arg.fn = "applyStyleConfig" /\ ret.type = "restyled") => ret.twice = ret.once

Styled == arg.fn = "applyStyleConfig" /\ ret.type = "styled"

RECURSIVE LinesOf(_, _)
\* the lines of str, cur being the line begun
LinesOf(str, cur) ==
    IF str = <<>> THEN <<cur>>
    ELSE IF Head(str) = "\n" THEN <<cur>> \o LinesOf(Tail(str), <<>>)
         ELSE LinesOf(Tail(str), Append(cur, Head(str)))

IsBlankLine(line) == \A k \in 1..Len(line) : IsSpace(line[k])

\* the first thing on the line after its indentation is the comment marker
IsCommentLine(line) ==
    /\ SpaceRun(line, 1) < Len(line)
    /\ line[SpaceRun(line, 1) + 1] = "//"

EndsInBrace(line) ==
    TrimEnd(line) # <<>> /\ TrimEnd(line)[Len(TrimEnd(line))] = "{"

\* C26: with the quote and indentation passes idle (single quotes, tabs),
\* every line of the text that is blank, a comment line or ends in an opening
\* brace is the same line of the styled text, with terminators enabled and
\* with terminators disabled.
C26_TerminatorsLeaveLines ==
    (Styled /\ arg.context.quotes = "single" /\ arg.context.indent = "tab")
    => LET before == LinesOf(arg.content, <<>>)
           after == LinesOf(ret.once, <<>>)
       IN  /\ Len(after) = Len(before)
           /\ \A k \in 1..Len(before) :
                 (IsBlankLine(before[k]) \/ IsCommentLine(before[k])
                     \/ EndsInBrace(before[k]))
                 => after[k] = before[k]

QuoteChars == {"'", "\""}
QuoteOf(quotes) == IF quotes = "double" THEN "\"" ELSE "'"

\* index i of str opens the literal of a from clause or of a symbol name
OpensReference(str, i) ==
    /\ i <= Len(str) /\ str[i] \in QuoteChars
    /\ \/ i > 1 /\ str[i - 1] = "Symbol("
       \/ i > 2 /\ str[i - 2] = "from" /\ str[i - 1] = " "

\* index i is a delimiter of such a literal (its text is one element)
DelimitsReference(str, i) ==
    \/ OpensReference(str, i)
    \/ i > 2 /\ OpensReference(str, i - 2) /\ str[i] \in QuoteChars

HasComment(str) == \E k \in 1..Len(str) : str[k] = "//"

\* C27: for every text without comments and both quote settings, every
\* delimiter of an import ... from or export ... from literal and of a symbol
\* name literal in the styled text is the configured quote character, and the
\* styled text differs from the text styled with its own quotes kept only at
\* those delimiters.
C27_ReferencesQuotedAsConfigured ==
    (Styled /\ ~HasComment(arg.content))
    => LET kept == applyStyleConfig(arg.content,
                                    [arg.context EXCEPT !.quotes = "single"])
       IN  /\ \A i \in 1..Len(ret.once) :
                 DelimitsReference(ret.once, i)
                 => ret.once[i] = QuoteOf(arg.context.quotes)
           /\ Len(ret.once) = Len(kept)
           /\ \A i \in 1..Len(kept) :
                 ret.once[i] # kept[i] => DelimitsReference(ret.once, i)


(***************************************************************************)
(* validateConfig (cli/config/validator.ts).  A JavaScript value is the    *)
(* pair of its typeof and its text in a template literal.                  *)
(***************************************************************************)
Undefined == <<"undefined", "undefined">>
Str(text) == <<"string", text>>
Num(text) == <<"number", text>>
Null == <<"object", "null">>

typeof(value) == value[1]
TextOf(value) == value[2]

IndentValues == {Undefined, Str("tab"), Num("2"), Num("4"), Num("3"), Str("2")}
QuotesValues == {Undefined, Str("single"), Str("double"), Str("backtick")}
FileCaseValues == {Undefined, Str("kebab"), Str("camel"), Str("pascal"), Str("snake")}
StringValues == {Undefined, Str("src/custom"), Num("123")}
SuffixValues == {Undefined, Str("PORT"), Null}
TemplateKeys == <<"portInterface", "portToken">>
TemplateValues == {Undefined, Str("./templates/custom.hbs"), Num("123")}

Configs ==
    [indent : IndentValues, quotes : QuotesValues, fileCase : FileCaseValues,
     portsDir : StringValues, adaptersDir : StringValues,
     portSuffix : SuffixValues, adapterSuffix : SuffixValues,
     templates : Optional([1..Len(TemplateKeys) -> TemplateValues])]

\* a plausible slip: an accepted indent left out of the list
validIndentsWithoutFour == {Str("tab"), Num("2")}

validIndents == {Str("tab"), Num("2"), Num("4")}
validQuotes == {Str("single"), Str("double")}
validCases == {Str("kebab"), Str("camel"), Str("pascal")}

ConfigValidationError(message) ==
    [type |-> "threw", name |-> "ConfigValidationError", message |-> message]

Returned == [type |-> "returned"]

\* `Invalid configuration: ... Got: ${value}` of the three closed sets
InvalidIndent(value) ==
    <<"Invalid configuration: ", "indent", " must be ", "'tab'", ", ", "2",
      ", or ", "4", ". Got: ", TextOf(value)>>
InvalidQuotes(value) ==
    <<"Invalid configuration: ", "quotes", " must be ", "'single'", " or ",
      "'double'", ". Got: ", TextOf(value)>>
InvalidFileCase(value) ==
    <<"Invalid configuration: ", "fileCase", " must be ", "'kebab'", ", ",
      "'camel'", ", or ", "'pascal'", ". Got: ", TextOf(value)>>

\* `Invalid configuration: ${field} must be a string. Got: ${typeof value}`
NotAString(field, value) ==
    <<"Invalid configuration: ", field, " must be ", "a string", ". Got: ",
      typeof(value)>>

IsNonString(value) == value # Undefined /\ typeof(value) # "string"

\* the for-of loop over Object.keys(config.templates): the first key whose
\* value is neither undefined nor a string, or 0
FirstBadTemplate(templates) ==
    IF \E k \in DOMAIN templates : IsNonString(templates[k])
    THEN CHOOSE k \in DOMAIN templates :
            /\ IsNonString(templates[k])
            /\ \A j \in 1..(k - 1) : ~IsNonString(templates[j])
    ELSE 0

validateConfig(config) ==
    IF config.indent # Undefined /\ config.indent \notin validIndents
    THEN ConfigValidationError(InvalidIndent(config.indent))
    ELSE IF config.quotes # Undefined /\ config.quotes \notin validQuotes
    THEN ConfigValidationError(InvalidQuotes(config.quotes))
    ELSE IF config.fileCase # Undefined /\ config.fileCase \notin validCases
    THEN ConfigValidationError(InvalidFileCase(config.fileCase))
    ELSE IF IsNonString(config.portsDir)
    THEN ConfigValidationError(NotAString("portsDir", config.portsDir))
    ELSE IF IsNonString(config.adaptersDir)
    THEN ConfigValidationError(NotAString("adaptersDir", config.adaptersDir))
    ELSE IF IsNonString(config.portSuffix)
    THEN ConfigValidationError(NotAString("portSuffix", config.portSuffix))
    ELSE IF IsNonString(config.adapterSuffix)
    THEN ConfigValidationError(NotAString("adapterSuffix", config.adapterSuffix))
    ELSE IF config.templates # Omitted /\ FirstBadTemplate(config.templates[1]) # 0
    THEN LET k == FirstBadTemplate(config.templates[1])
         IN  ConfigValidationError(
                NotAString("templates." \o TemplateKeys[k], config.templates[1][k]))
    ELSE Returned

ConfigInit ==
    /\ GeneratorsIdle
    /\ arg \in [fn : {"validateConfig"}, config : Configs]
    /\ ret = NoRet

\* validateConfig(config), as the tests call it
Validate ==
    /\ arg.fn = "validateConfig"
    /\ ret = NoRet
    /\ ret' = validateConfig(arg.config)
    /\ UNCHANGED <<arg, genVars>>

ConfigNext == Validate

ConfigSpec == ConfigInit /\ [][ConfigNext]_vars

Validated == arg.fn = "validateConfig" /\ ret.type # "none"

EnumFields == {"indent", "quotes", "fileCase"}
StringFields == {"portsDir", "adaptersDir", "portSuffix", "adapterSuffix"}

\* the closed set of an enumerated field, as the values and as their texts
ClosedSet(field) ==
    CASE field = "indent" -> {Str("tab"), Num("2"), Num("4")}
      [] field = "quotes" -> {Str("single"), Str("double")}
      [] field = "fileCase" -> {Str("kebab"), Str("camel"), Str("pascal")}

Literal(value) ==
    IF typeof(value) = "string" THEN "'" \o TextOf(value) \o "'" ELSE TextOf(value)

\* the supplied enumerated fields whose value is outside the closed set
BadEnumFields ==
    {f \in EnumFields : arg.config[f] # Undefined /\ arg.config[f] \notin ClosedSet(f)}

\* the supplied directory and suffix fields that are not strings
BadStringFields == {f \in StringFields : IsNonString(arg.config[f])}

\* the supplied template paths that are not strings
BadTemplateFields ==
    IF arg.config.templates = Omitted THEN {}
    ELSE {"templates." \o TemplateKeys[k] :
             k \in {j \in 1..Len(TemplateKeys) : IsNonString(arg.config.templates[1][j])}}

Mentions(message, text) == \E i \in 1..Len(message) : message[i] = text

\* C21: validateConfig throws a ConfigValidationError that names the field,
\* the invalid value and the accepted values when a supplied fileCase, indent
\* or quotes is outside its closed set, one that names the field when a
\* supplied directory, suffix or template path is not a string, and returns
\* when every supplied field is valid.
C21_ValidateConfig ==
    Validated
    => IF BadEnumFields \cup BadStringFields \cup BadTemplateFields = {}
       THEN ret.type = "returned"
       ELSE /\ ret.type = "threw"
            /\ ret.name = "ConfigValidationError"
            /\ IF BadEnumFields # {}
               THEN \E f \in BadEnumFields :
                       /\ Mentions(ret.message, f)
                       /\ Mentions(ret.message, TextOf(arg.config[f]))
                       /\ \A v \in ClosedSet(f) : Mentions(ret.message, Literal(v))
               ELSE \E f \in BadStringFields \cup BadTemplateFields :
                       Mentions(ret.message, f)

C21_Witness ==
    /\ Validated /\ ret.type = "threw"
    /\ BadEnumFields = {"fileCase"}
    /\ BadTemplateFields # {}
    /\ Mentions(ret.message, "fileCase") /\ Mentions(ret.message, "snake")

(***************************************************************************)
(* renderTemplate (cli/utils/template-renderer.ts).  A message is the      *)
(* sequence of its parts; includes() looks for a part.                     *)
(***************************************************************************)
TemplatePaths ==
    {"templates/port/interface.hbs", "templates/port/token.hbs",
     "templates/port/service.hbs", "templates/port/module.hbs",
     "templates/port/index.hbs", "templates/service/injectable-service.hbs",
     "nonexistent.hbs", "invalid.hbs", "missing.hbs"}

\* what Handlebars says of a template it cannot compile or run; a parse error
\* quotes the template text around the error
CompileCauses ==
    { <<"Parse error on line 1", "{{#if unclosed}}">>,
      <<"Parse error on line 1", "Template file not found">>,
      <<"Parse error on line 1", "Failed to read template">>,
      <<"Missing helper">> }

\* what reading an existing file can throw
ReadCauses == { <<"EISDIR: illegal operation on a directory, read">>,
                <<"EACCES: permission denied">> }

\* the template file as renderTemplate finds it
TemplateFiles ==
    {[state |-> "missing"]}
    \cup [state : {"unreadable"}, cause : ReadCauses]
    \cup [state : {"invalid"}, cause : CompileCauses]
    \cup [state : {"valid"}, source : {"{{nameKebab}}", "export"}]

RenderContexts == {"payment", "object-storage"}

\* error.message.includes(text)
Includes(message, text) == \E i \in 1..Len(message) : message[i] = text

TemplateNotFound(templatePath) ==
    <<"Template file not found", ": ", templatePath, "\n",
      "Please ensure the template exists or report this as a bug.">>

FailedToCompile(templatePath, cause) ==
    <<"Failed to compile template", " ", templatePath, ": ">> \o cause
    \o <<"\n", "This may indicate invalid Handlebars syntax in the template.">>

FailedToRead(templatePath, cause) ==
    <<"Failed to read template", " ", templatePath, ": ">> \o cause

\* a plausible slip: the compile error is not recognised by the outer catch
RethrownAsIsNotFoundOnly(message) == Includes(message, "Template file not found")

\* the outer catch re-throws the two errors made inside the try
RethrownAsIs(message) ==
    \/ Includes(message, "Template file not found")
    \/ Includes(message, "Failed to compile template")

\* the outer catch block applied to the message of what the try block threw
OuterCatch(templatePath, message) ==
    IF RethrownAsIs(message) THEN message ELSE FailedToRead(templatePath, message)

ThrownError(message) == [type |-> "threw", name |-> "Error", message |-> message]

renderTemplate(templatePath, file, context) ==
    CASE file.state = "missing" ->
            ThrownError(OuterCatch(templatePath, TemplateNotFound(templatePath)))
      [] file.state = "unreadable" ->
            ThrownError(OuterCatch(templatePath, file.cause))
      [] file.state = "invalid" ->
            ThrownError(OuterCatch(templatePath,
                                   FailedToCompile(templatePath, file.cause)))
      [] OTHER -> [type |-> "returned", value |-> <<file.source, context>>]

RenderInit ==
    /\ GeneratorsIdle
    /\ arg \in [fn : {"renderTemplate"}, templatePath : TemplatePaths,
                file : TemplateFiles, context : RenderContexts]
    /\ ret = NoRet

\* await renderTemplate(templatePath, context)
RenderTemplate ==
    /\ arg.fn = "renderTemplate"
    /\ ret = NoRet
    /\ ret' = renderTemplate(arg.templatePath, arg.file, arg.context)
    /\ UNCHANGED <<arg, genVars>>

RenderNext == RenderTemplate

RenderSpec == RenderInit /\ [][RenderNext]_vars

Rendered == arg.fn = "renderTemplate" /\ ret.type # "none"

\* what a caller can go by: how the message begins
IsNotFoundError(r) == r.type = "threw" /\ r.message[1] = "Template file not found"
IsCompileError(r) == r.type = "threw" /\ r.message[1] = "Failed to compile template"

\* C23: renderTemplate throws a template-not-found error when the file does
\* not exist and a template-compile error when the template text is invalid;
\* no error is of both kinds, and each error's message contains the template
\* path.
C23_RenderErrors ==
    Rendered
    => /\ arg.file.state = "missing" => IsNotFoundError(ret)
       /\ arg.file.state = "invalid" => IsCompileError(ret)
       /\ ~(IsNotFoundError(ret) /\ IsCompileError(ret))
       /\ IsNotFoundError(ret) => arg.file.state = "missing"
       /\ IsCompileError(ret) => arg.file.state = "invalid"
       /\ (IsNotFoundError(ret) \/ IsCompileError(ret))
             => Includes(ret.message, arg.templatePath)

C23_Witness ==
    /\ Rendered /\ arg.file.state = "invalid"
    /\ Includes(arg.file.cause, "Template file not found")
    /\ IsCompileError(ret)
    /\ Includes(ret.message, arg.templatePath)

(***************************************************************************)
(* One invocation from the configuration file to the last write:           *)
(* loadConfig, new Generator(config), generate (one render per artifact,   *)
(* then generateFiles).                                                    *)
(***************************************************************************)
defaultConfig ==
    [indent |-> Str("tab"), quotes |-> Str("single"), fileCase |-> Str("kebab"),
     portsDir |-> Str("src/ports"), adaptersDir |-> Str("src/adapters"),
     portSuffix |-> Str("PORT"), adapterSuffix |-> Str("Adapter"),
     templates |-> Some([k \in 1..Len(TemplateKeys) |-> Undefined])]

\* what nest-hex.config.ts exports by default, field by field
NoOverrides ==
    [indent |-> Undefined, quotes |-> Undefined, fileCase |-> Undefined,
     portsDir |-> Undefined, adaptersDir |-> Undefined,
     portSuffix |-> Undefined, adapterSuffix |-> Undefined,
     templates |-> Omitted]

UserConfigs ==
    { NoOverrides,
      [NoOverrides EXCEPT !.indent = Num("2")],
      [NoOverrides EXCEPT !.indent = Num("3")],
      [NoOverrides EXCEPT !.quotes = Str("backtick")],
      [NoOverrides EXCEPT !.fileCase = Str("snake")] }

\* nest-hex.config.ts: not there, there but failing to import, or exporting
\* a configuration
ConfigFiles ==
    {[state |-> "absent"], [state |-> "unloadable"]}
    \cup [state : {"loaded"}, config : UserConfigs]

\* merge(defaultConfig, config.default ?? {})
merge(base, over) ==
    [f \in DOMAIN base |->
        IF f = "templates"
        THEN (IF over[f] = Omitted THEN base[f] ELSE over[f])
        ELSE (IF over[f] = Undefined THEN base[f] ELSE over[f])]

loadConfig(file) ==
    IF file.state = "loaded" THEN merge(defaultConfig, file.config)
    ELSE defaultConfig

\* join(templateDir, template)
TemplatePathOf(kind, template) ==
    "templates/" \o (IF kind = "port" THEN "port" ELSE "service") \o "/" \o template

BrokenTemplateFiles ==
    {[state |-> "missing"],
     [state |-> "invalid", cause |-> <<"Parse error on line 1", "{{#if unclosed}}">>]}

ValidTemplateFile == [state |-> "valid", source |-> "{{nameKebab}}"]

\* the template file of the i-th artifact of the call
TemplateFileOf(c, i) ==
    IF c.broken # Omitted /\ c.broken[1][1] = i THEN c.broken[1][2]
    ELSE ValidTemplateFile

\* the filesystems an invocation can start from: nothing generated yet, or a
\* port generated before
StartFilesystems ==
    LET empty == [fs |-> [p \in Paths |-> Absent], dirs |-> {}]
        written(n, o) ==
            PortFiles([name |-> n, outputPath |-> o, includeService |-> Omitted,
                       includeModule |-> Omitted])
    IN  {empty}
        \cup {[fs |-> [p \in Paths |->
                         IF \E k \in 1..Len(written(n, o)) : written(n, o)[k].path = p
                         THEN (CHOOSE f \in Range(written(n, o)) : f.path = p).content
                         ELSE Absent],
                dirs |-> Ancestors(<<o, n>>)] :
                n \in Names, o \in OutputPaths}

InvocationInit ==
    /\ unwritable \in {u \in SUBSET Paths : Cardinality(u) <= MaxFaults}
    /\ \E start \in StartFilesystems :
          /\ fs = start.fs
          /\ dirs = start.dirs
          /\ pre = start
    /\ pc = "idle"
    /\ call = NoCall
    /\ files = <<>>
    /\ gfDryRun = FALSE
    /\ gfForce = FALSE
    /\ idx = 1
    /\ generatedFiles = <<>>
    /\ failures = <<>>
    /\ results = <<>>
    /\ outcome = NoOutcome
    /\ lastWrite = NoWrite
    /\ nops = 0
    /\ arg = NoArg
    /\ ret = NoRet

\* the command: loadConfig(), new Generator(config), generate(options) up to
\* its first render
Invoke(kind, opts, configFile, broken) ==
    /\ pc = "idle"
    /\ call = NoCall
    /\ nops' = nops + 1
    /\ pc' = "rendering"
    /\ call' = [kind |-> kind, opts |-> opts, config |-> loadConfig(configFile),
                broken |-> broken]
    /\ files' = <<>>
    /\ gfDryRun' = DryRunArg(kind, opts)
    /\ gfForce' = ForceArg(kind, opts)
    /\ idx' = 1
    /\ generatedFiles' = <<>>
    /\ failures' = <<>>
    /\ results' = <<>>
    /\ outcome' = NoOutcome
    /\ pre' = [fs |-> fs, dirs |-> dirs]
    /\ UNCHANGED <<fs, dirs, unwritable, lastWrite, arg, ret>>

\* a plausible slip: generateFiles is called as soon as one artifact is rendered
RenderedOne(plan, rendered) == Len(rendered) >= 1

\* generateFiles is called after the last render of generate
RenderedAll(plan, rendered) == Len(rendered) = Len(plan)

\* renderTemplate + applyStyleConfig + files.push of the next artifact; the
\* Error of renderTemplate is not caught by generate
RenderArtifact ==
    /\ pc = "rendering"
    /\ LET plan == FilesOf(call.kind, call.opts)
           i == Len(files) + 1
           r == renderTemplate(TemplatePathOf(call.kind, plan[i].content[2]),
                               TemplateFileOf(call, i), call.opts.name)
       IN  IF r.type = "threw"
           THEN /\ pc' = "idle"
                /\ outcome' = [type |-> "thrown", error |-> r]
                /\ UNCHANGED files
           ELSE /\ files' = Append(files, plan[i])
                /\ pc' = IF RenderedAll(plan, Append(files, plan[i]))
                         THEN "writing" ELSE "rendering"
                /\ UNCHANGED outcome
    /\ UNCHANGED <<fs, dirs, unwritable, call, gfDryRun, gfForce, idx,
                   generatedFiles, failures, results, lastWrite, pre, nops,
                   arg, ret>>

InvocationNext ==
    \/ \E kind \in Kinds : \E opts \in Options(kind) :
          \E configFile \in ConfigFiles :
             \E broken \in Optional((1..Len(FilesOf(kind, opts))) \X BrokenTemplateFiles) :
                Invoke(kind, opts, configFile, broken)
    \/ RenderArtifact
    \/ WriteNext
    \/ Finish

InvocationSpec == InvocationInit /\ [][InvocationNext]_vars

Invoked == call # NoCall /\ arg = NoArg
InvocationOver == Invoked /\ pc = "idle" /\ outcome.type # "none"

\* C22: with a configuration that holds an invalid value nothing is rendered
\* and nothing is written, and the invocation ends with a
\* ConfigValidationError.
C22_InvalidConfigStopsGeneration ==
    (Invoked /\ validateConfig(call.config).type = "threw")
    => /\ files = <<>>
       /\ results = <<>>
       /\ fs = pre.fs
       /\ InvocationOver
             => /\ outcome.type = "thrown"
                /\ outcome.error.name = "ConfigValidationError"

\* C24: no write is attempted before every artifact of the batch has been
\* rendered, and an invocation that ends with a render error leaves the
\* files and directories as they were before the call.
C24_RenderBeforeWrite ==
    Invoked
    => /\ pc = "rendering" => results = <<>> /\ fs = pre.fs /\ dirs = pre.dirs
       /\ results # <<>> => files = FilesOf(call.kind, call.opts)
       /\ (InvocationOver /\ outcome.type = "thrown" /\ Len(files) < Len(FilesOf(call.kind, call.opts)))
             => /\ outcome.error.type = "threw"
                /\ results = <<>> /\ fs = pre.fs /\ dirs = pre.dirs

C24_Witness ==
    /\ InvocationOver /\ outcome.type = "thrown"
    /\ call.kind = "port" /\ Len(files) = 2
    /\ Len(FilesOf(call.kind, call.opts)) = 5
    /\ call.opts.dryRun = Omitted
    /\ \E p \in Paths : pre.fs[p] # Absent
    /\ fs = pre.fs

(***************************************************************************)
(* Two writeFile calls in flight at once.  A call gives way at each await: *)
(* after it has asked file.exists() and after it has handed its content to *)
(* Bun.write.                                                              *)
(***************************************************************************)
Callers == {1, 2}
CallerContents == << <<"Content 1">>, <<"Content 2">> >>
RacePaths == {p \in Paths : p[3] \in {"index.ts", "payment.port.ts"}}

PendingResult(filePath) ==
    [success |-> FALSE, path |-> filePath, existed |-> FALSE, written |-> FALSE,
     message |-> ""]

RaceInit ==
    /\ fs \in {f \in [Paths -> {Absent, ManualContent}] :
                 \A p \in Paths \ RacePaths : f[p] = Absent}
    /\ dirs = UNION {Ancestors(dirname(p)) : p \in {q \in Paths : fs[q] # Absent}}
    /\ unwritable \in {u \in SUBSET RacePaths : Cardinality(u) <= MaxFaults}
    /\ pc = "idle"
    /\ call = NoCall
    /\ files = <<>>
    /\ gfDryRun = FALSE
    /\ gfForce = FALSE
    /\ idx = 1
    /\ generatedFiles = <<>>
    /\ failures = <<>>
    /\ results = <<>>
    /\ outcome = NoOutcome
    /\ lastWrite = NoWrite
    /\ pre = [fs |-> fs, dirs |-> dirs]
    /\ nops = 0
    /\ arg \in [Callers -> [filePath : RacePaths, force : BOOLEAN, dryRun : BOOLEAN]]
    /\ ret = [c \in Callers |->
                [pc |-> "start", existed |-> FALSE,
                 result |-> PendingResult(arg[c].filePath)]]

raceFrame == <<unwritable, pc, call, files, gfDryRun, gfForce, idx, generatedFiles,
               failures, results, outcome, lastWrite, pre, nops, arg>>

\* const existed = await file.exists()
Exists(c) ==
    /\ ret[c].pc = "start"
    /\ ret' = [ret EXCEPT ![c].pc = "checked",
                          ![c].existed = fs[arg[c].filePath] # Absent]
    /\ UNCHANGED <<fs, dirs, raceFrame>>

\* the two early returns, or mkdirSync and the call of Bun.write
Resume(c) ==
    /\ ret[c].pc = "checked"
    /\ IF IsConflict(ret[c].existed, arg[c].force, arg[c].dryRun)
          \/ SkipsWrite(arg[c].force, arg[c].dryRun)
       THEN /\ ret' = [ret EXCEPT
                  ![c].pc = "done",
                  ![c].result = writeFileFrom(fs, dirs, ret[c].existed, arg[c].filePath,
                                              CallerContents[c], arg[c].force,
                                              arg[c].dryRun).result]
            /\ UNCHANGED dirs
       ELSE /\ ret' = [ret EXCEPT ![c].pc = "writing"]
            /\ dirs' = dirs \cup Ancestors(dirname(arg[c].filePath))
    /\ UNCHANGED <<fs, raceFrame>>

\* Bun.write settles: the content is in the file, or the write has thrown
Written(c) ==
    /\ ret[c].pc = "writing"
    /\ LET w == writeFileFrom(fs, dirs, ret[c].existed, arg[c].filePath,
                              CallerContents[c], arg[c].force, arg[c].dryRun)
       IN  /\ fs' = w.fs
           /\ dirs' = w.dirs
           /\ ret' = [ret EXCEPT ![c].pc = "done", ![c].result = w.result]
    /\ UNCHANGED raceFrame

RaceNext == \E c \in Callers : Exists(c) \/ Resume(c) \/ Written(c)

RaceSpec == RaceInit /\ [][RaceNext]_vars

\* caller c writes without force and without dry run
Plain(c) == ~arg[c].force /\ ~arg[c].dryRun

\* the step in which Bun.write of a plain call settles leaves a file that
\* exists at that moment as it is
WriteKeepsExisting ==
    \A c \in Callers :
       (Plain(c) /\ ret[c].pc = "writing" /\ ret'[c].pc = "done"
          /\ fs[arg[c].filePath] # Absent)
       => fs'[arg[c].filePath] = fs[arg[c].filePath]

\* both plain calls for one path that was absent are over: at most one has
\* written, and the file holds the content of the one that has
OneWriterWins ==
    (/\ \A c \in Callers : Plain(c) /\ ret[c].pc = "done"
     /\ arg[1].filePath = arg[2].filePath
     /\ pre.fs[arg[1].filePath] = Absent)
    => /\ ~(ret[1].result.written /\ ret[2].result.written)
       /\ \A c \in Callers :
             ret[c].result.written => fs[arg[c].filePath] = CallerContents[c]

\* C29: a writeFile call without force and dry run never replaces the content
\* of a file that exists when its write settles, and of two such calls in
\* flight for one absent path at most one returns written = true, the file
\* holding that call's content.
C29_NoReplaceWhenInterleaved ==
    [][WriteKeepsExisting]_vars /\ []OneWriterWins

(***************************************************************************)
(* scanAvailablePorts (cli/utils/port-scanner.ts) over a ports directory   *)
(* the port generator has written into.  A directory entry is its name,    *)
(* whether it is a directory, and the files in it.                         *)
(***************************************************************************)
\* [A-Z] of the scanner's pattern: the letters of the model's identifiers
ScannerUpperChars == UpperChars \cup {"P", "O", "R", "T"}

\* defaultConfig.naming.portSuffix
DefaultPortSuffix == <<"P", "O", "R", "T">>

\* the token template: export const NAME_SUFFIX = Symbol('NAME_SUFFIX') and
\* the token type on the next line
TokenTemplate(context, portSuffix) ==
    LET token == context.nameScreamingSnake \o <<"_">> \o portSuffix
    IN  <<"export", " ", "const", " ">> \o token \o <<" ", "=", " ", "Symbol(", "'">>
        \o token \o <<"'", ")", "\n", "export", " ", "type", " ">>
        \o context.namePascal \o <<"Token", " ", "=", " ", "typeof", " ">> \o token

\* entries found in the ports directory before the port is generated
EmptyDirectory == [name |-> <<"l", "i", "b">>, isDirectory |-> TRUE, files |-> <<>>]
PlainFile == [name |-> <<"R", "E", "A", "D", "M", "E">>, isDirectory |-> FALSE,
              files |-> <<>>]
OtherEntries == {<<>>, <<EmptyDirectory>>, <<PlainFile>>, <<EmptyDirectory, PlainFile>>}

ScanStyles == [quotes : Quotes, semicolons : BOOLEAN, indent : {"tab"}]

ScanInit ==
    /\ GeneratorsIdle
    /\ arg \in [fn : {"scanAvailablePorts"},
                opts : [name : ArtifactNames, outputPath : {Omitted},
                        includeService : {Omitted}, includeModule : {Omitted}],
                config : [fileCase : Optional(FileCases), portsDir : {Omitted}],
                style : ScanStyles,
                others : OtherEntries]
    /\ ret = NoRet

\* new PortGenerator(config).generate(opts) into the ports directory: the
\* port's directory with its files, the token file holding the styled token
GeneratePort ==
    /\ arg.fn = "scanAvailablePorts"
    /\ ret = NoRet
    /\ LET layout == PortFilePaths(arg.opts, arg.config)
           token == applyStyleConfig(TokenTemplate(layout.context, DefaultPortSuffix),
                                     arg.style)
           written == [i \in 1..Len(layout.paths) |->
                         [name |-> basename(layout.paths[i]),
                          content |-> IF i = 2 THEN token ELSE <<>>]]
       IN  ret' = [type |-> "generated",
                   token |-> layout.context.nameScreamingSnake \o <<"_">>
                                \o DefaultPortSuffix,
                   entries |-> arg.others
                                  \o <<[name |-> basename(layout.dir),
                                        isDirectory |-> TRUE, files |-> written]>>]
    /\ UNCHANGED <<arg, genVars>>

\* length of the run of [A-Z_] that starts at index i
RECURSIVE TokenRun(_, _)
TokenRun(str, i) ==
    IF i <= Len(str) /\ str[i] \in ScannerUpperChars \cup {"_"}
    THEN 1 + TokenRun(str, i + 1) ELSE 0

Is(str, i, word) == i <= Len(str) /\ str[i] = word

\* /export\s+const\s+([A-Z_]+)\s*=\s*Symbol/ matched at index i: the index
\* and length of the group, or <<>>
TokenMatchAt(str, i) ==
    LET j == i + 1 + SpaceRun(str, i + 1)
        k == j + 1 + SpaceRun(str, j + 1)
        e == k + TokenRun(str, k)
        q == e + SpaceRun(str, e)
        y == q + 1 + SpaceRun(str, q + 1)
    IN  IF /\ Is(str, i, "export") /\ SpaceRun(str, i + 1) >= 1
           /\ Is(str, j, "const") /\ SpaceRun(str, j + 1) >= 1
           /\ TokenRun(str, k) >= 1
           /\ Is(str, q, "=")
           /\ Is(str, y, "Symbol(")
        THEN <<k, TokenRun(str, k)>>
        ELSE <<>>

\* tokenFileContent.match(...): the group of the leftmost match, or <<>>
TokenMatch(str) ==
    IF \E i \in 1..Len(str) : TokenMatchAt(str, i) # <<>>
    THEN LET i == CHOOSE i \in 1..Len(str) :
                     /\ TokenMatchAt(str, i) # <<>>
                     /\ \A h \in 1..(i - 1) : TokenMatchAt(str, h) = <<>>
             m == TokenMatchAt(str, i)
         IN  SubSeq(str, m[1], m[1] + m[2] - 1)
    ELSE <<>>

\* portName.split('-').map(capitalise).join('')
RECURSIVE CapitaliseParts(_, _)
CapitaliseParts(str, first) ==
    IF str = <<>> THEN <<>>
    ELSE IF Head(str) = "-" THEN CapitaliseParts(Tail(str), TRUE)
    ELSE <<IF first THEN UpperOf(Head(str)) ELSE Head(str)>>
         \o CapitaliseParts(Tail(str), FALSE)

\* the file of the entry with the given name, or <<>>
FileNamed(entry, name) ==
    LET found == {i \in 1..Len(entry.files) : entry.files[i].name = name}
    IN  IF found = {} THEN <<>> ELSE <<entry.files[CHOOSE i \in found : TRUE]>>

\* the loop body's three `continue`s
ListsEntry(entry) ==
    /\ entry.isDirectory
    /\ FileNamed(entry, Named(entry.name, ".token.ts")) # <<>>
    /\ TokenMatch(FileNamed(entry, Named(entry.name, ".token.ts"))[1].content) # <<>>

RECURSIVE scanAvailablePorts(_)
\* the PortInfo of the entries, in the order readdirSync gives them
scanAvailablePorts(entries) ==
    IF entries = <<>> THEN <<>>
    ELSE (IF ListsEntry(Head(entries))
          THEN <<[name |-> Head(entries).name,
                  pascalName |-> CapitaliseParts(Head(entries).name, TRUE),
                  tokenName |-> TokenMatch(FileNamed(Head(entries),
                                    Named(Head(entries).name, ".token.ts"))[1].content)]>>
          ELSE <<>>)
         \o scanAvailablePorts(Tail(entries))

\* scanAvailablePorts(config) after the port has been generated
ScanPorts ==
    /\ ret.type = "generated"
    /\ ret' = [type |-> "scanned", token |-> ret.token, entries |-> ret.entries,
               ports |-> scanAvailablePorts(ret.entries)]
    /\ UNCHANGED <<arg, genVars>>

ScanNext == GeneratePort \/ ScanPorts

ScanSpec == ScanInit /\ [][ScanNext]_vars

Scanned == arg.fn = "scanAvailablePorts" /\ ret.type = "scanned"

\* the directory the generator made for the port
GeneratedEntry == ret.entries[Len(ret.entries)]

\* C30: for every port name and file-naming case, the scan made after the
\* port was generated lists the port's directory exactly once, with the token
\* name that the generated token file declares.
C30_ScanListsGeneratedPort ==
    Scanned
    => /\ Cardinality({i \in 1..Len(ret.ports) :
                          ret.ports[i].name = GeneratedEntry.name}) = 1
       /\ \A i \in 1..Len(ret.ports) :
             ret.ports[i].name = GeneratedEntry.name
             => ret.ports[i].tokenName = ret.token

====
